---- MODULE Spec2Model ----
(***************************************************************************)
(* A model of the transaction pruner of prune.go: the Remover strategies   *)
(* (batchRemover, bulkRemover), the pruning decision (shouldPrune) and the *)
(* orchestrator (CleanAndPrune) with its sweeps and progress reporter.     *)
(*                                                                         *)
(* The specifications share the module's variables; each one moves only    *)
(* its own group and leaves the others at their initial values:            *)
(*   SpecRemover  one Remover instance driven by Remove and Flush calls;   *)
(*   SpecDecide   shouldPrune applied to enumerated inputs;                *)
(*   Spec         one call of CleanAndPrune.                               *)
(* Further specifications cover maybePrune with the stats store            *)
(* (SpecMaybe, SpecMaybePair for two processes), the engine's sweeps among *)
(* live transactions (SpecEngine),                                         *)
(* simpleTimer (SpecTimer), txnCollections (SpecCollections) and           *)
(* CleanAndPrune under fair scheduling (SpecLive).                         *)
(***************************************************************************)
EXTENDS Integers, Sequences, FiniteSets, TLC

VARIABLES
    \* ---- Remover (SpecRemover)
    remover,     \* the batchRemover or bulkRemover object under the Remover interface
    lastCall,    \* the Remover call that ran last and the database request it issued
    dbDeleted,   \* documents the database reported deleted in flushes it answered without error
    nCalls,      \* Remover calls made so far
    \* ---- the pruning decision (SpecDecide)
    oldCount,     \* lastTxnsCount: txns-after of the last run, -1 when unknown
    newCount,     \* txnsCount: the size of the txns collection now
    pruneOptions, \* the caller's PruneOptions, resolved in place by validatePruneOptions
    decision,     \* what shouldPrune returned
    dpc,          \* position in maybePrune's decision: start, validated, decided
    \* ---- CleanAndPrune (Spec)
    args,         \* the CleanAndPruneArgs of the call
    mpc,          \* position of the calling goroutine in CleanAndPrune
    result,       \* what CleanAndPrune returned: stats and err
    reporter,     \* the reporting goroutine: state, its two totals, lines logged
    stopClosed,   \* close(stop) has run
    wg,           \* the WaitGroup's counter
    mu,           \* the mutex: "free" or the sweep holding it
    pstats,       \* the combined PrunerStats
    anyErr,       \* the first error recorded
    spc,          \* position of each sweep (the closure prune)
    pruner,       \* each sweep's pruner: its arguments, progress, statistics and error
    launches,     \* how many times each sweep was started
    loaded,       \* each sweep's copy of pstats, read for CombineStats
    recorded,     \* the sweeps that recorded their result, in the order they did
    txnsColl,     \* the eligible transactions still in the txns collection
    dbOps,        \* database operations issued by the sweeps
    \* ---- maybePrune and the stats store (SpecMaybe)
    mp,           \* each process's run of maybePrune: its position and locals
    statsDocs,    \* the pruneStats snapshots in the T.prune collection
    lastPtr,      \* the "last" pointer document of T.prune: the id it names
    txnsDb,       \* documents in the txns collection
    stashDb,      \* documents in the T.stash collection
    nextId,       \* the next bson.NewObjectId
    external,     \* whether something other than maybePrune has deleted a snapshot
    \* ---- the incremental engine among live transactions (SpecEngine)
    txnRecs,      \* the transaction records: state, operations, whether still stored
    docQueue,     \* each document's queue of transaction tokens
    sw,           \* each sweep of the engine: position, arguments, transaction in hand
    deletions,    \* what was true of each transaction record when it was deleted
    \* ---- simpleTimer (SpecTimer)
    timer,        \* the simpleTimer: interval and next
    clock,        \* time.Now()
    fired,        \* when the timer was made and when isAfter answered true
    \* ---- txnCollections (SpecCollections)
    tc            \* the call of txnCollections: inNames, txnsName, position, outNames

remVars == <<remover, lastCall, dbDeleted, nCalls>>

decVars == <<oldCount, newCount, pruneOptions, decision, dpc>>

capVars == <<args, mpc, result, reporter, stopClosed, wg, mu, pstats, anyErr,
             spc, pruner, loaded, launches, recorded, txnsColl, dbOps>>

mayVars == <<mp, statsDocs, lastPtr, txnsDb, stashDb, nextId, external>>

engVars == <<txnRecs, docQueue, sw, deletions>>

timVars == <<timer, clock, fired>>

colVars == <<tc>>

vars == <<remover, lastCall, dbDeleted, nCalls,
          oldCount, newCount, pruneOptions, decision, dpc,
          args, mpc, result, reporter, stopClosed, wg, mu, pstats, anyErr,
          spc, pruner, loaded, launches, recorded, txnsColl, dbOps,
          mp, statsDocs, lastPtr, txnsDb, stashDb, nextId, external,
          txnRecs, docQueue, sw, deletions,
          timer, clock, fired,
          tc>>

-----------------------------------------------------------------------------
(* Remover: batchRemover and bulkRemover                                   *)

\* prune.go:54
maxBulkOps == 1000

\* Bounds of the Remover specification.
MaxCalls == 4      \* Remover calls in one behaviour
MaxId == 2         \* identifiers handed to Remove are 1..MaxId
Headroom == 1      \* a run of Remove calls fills the queue up to maxBulkOps - Headroom

Ids == 1 .. MaxId

\* The outcomes of a delete request: nil, mgo.ErrNotFound, any other error.
DbErrs == {"nil", "ErrNotFound", "ErrOther"}

\* A nil *mgo.BulkResult.
NilResult == -1

\* The counts a result may report for a request covering n identifiers.
ReportedCounts(n) == {0, 1, n} \cap (0 .. n)

\* Collection.RemoveAll's answers to a request covering n identifiers: the
\* ChangeInfo is read unguarded at prune.go:496, so the driver is taken to
\* hand one back whenever it answers nil or ErrNotFound.
RemoveAllAnswers(n) ==
    [err : {"nil", "ErrNotFound"}, result : ReportedCounts(n)]
        \cup [err : {"ErrOther"}, result : {NilResult}]

\* Bulk.Run's answers to a chunk of n operations: the *BulkResult may be nil
\* (prune.go:546 guards it).
BulkRunAnswers(n) ==
    [err : {"nil", "ErrNotFound"}, result : ReportedCounts(n) \cup {NilResult}]
        \cup [err : {"ErrOther"}, result : {NilResult}]

newBatchRemover == [kind |-> "batch", queue |-> <<>>, removed |-> 0]

newChunk(r) == [r EXCEPT !.chunk = <<>>, !.chunkSize = 0]

newBulkRemover == newChunk([kind |-> "bulk", chunk |-> <<>>, chunkSize |-> 0, removed |-> 0])

\* No request issued by a call.
NoRequest == [issued |-> FALSE, ids |-> <<>>, answer |-> [err |-> "nil", result |-> NilResult]]

Request(ids, ans) == [issued |-> TRUE, ids |-> ids, answer |-> ans]

\* batchRemover.Flush as it would be with ErrNotFound left to the default case.
batchFlushNotFoundFails(r, ans) ==
    IF Len(r.queue) < 1 THEN [r |-> r, err |-> "nil", req |-> NoRequest]
    ELSE IF ans.err = "nil"
         THEN [r |-> [r EXCEPT !.removed = @ + ans.result, !.queue = <<>>],
               err |-> "nil", req |-> Request(r.queue, ans)]
         ELSE [r |-> r, err |-> ans.err, req |-> Request(r.queue, ans)]

\* batchRemover.Flush (prune.go:487-502) with the database answering ans.
\* The value is the remover afterwards, the error returned and the request
\* issued.
batchFlush(r, ans) ==
    IF Len(r.queue) < 1 THEN [r |-> r, err |-> "nil", req |-> NoRequest]
    ELSE IF ans.err \in {"nil", "ErrNotFound"}
         THEN [r |-> [r EXCEPT !.removed = @ + ans.result, !.queue = <<>>],
               err |-> "nil", req |-> Request(r.queue, ans)]
         ELSE [r |-> r, err |-> ans.err, req |-> Request(r.queue, ans)]

\* batchRemover.Remove as it would be calling Flush without returning its
\* error.
batchRemoveDropsError(r, id, ans) ==
    LET r1 == [r EXCEPT !.queue = Append(@, id)]
    IN  IF Len(r1.queue) >= maxBulkOps
        THEN [batchFlush(r1, ans) EXCEPT !.err = "nil"]
        ELSE [r |-> r1, err |-> "nil", req |-> NoRequest]

\* batchRemover.Remove (prune.go:479-485).
batchRemove(r, id, ans) ==
    LET r1 == [r EXCEPT !.queue = Append(@, id)]
    IN  IF Len(r1.queue) >= maxBulkOps THEN batchFlush(r1, ans)
        ELSE [r |-> r1, err |-> "nil", req |-> NoRequest]

\* bulkRemover.Flush as it would be counting the operations submitted instead
\* of the documents the result reports matched.
bulkFlushCountsQueued(r, ans) ==
    IF r.chunkSize < 1 THEN [r |-> r, err |-> "nil", req |-> NoRequest]
    ELSE IF ans.err \in {"nil", "ErrNotFound"}
         THEN [r |-> newChunk([r EXCEPT !.removed = @ + r.chunkSize]),
               err |-> "nil", req |-> Request(r.chunk, ans)]
         ELSE [r |-> r, err |-> ans.err, req |-> Request(r.chunk, ans)]

\* bulkRemover.Flush (prune.go:538-554): chunk.Run submits every operation
\* queued on the chunk; a failed Run leaves the chunk as it was.
bulkFlush(r, ans) ==
    IF r.chunkSize < 1 THEN [r |-> r, err |-> "nil", req |-> NoRequest]
    ELSE IF ans.err \in {"nil", "ErrNotFound"}
         THEN [r |-> newChunk(IF ans.result # NilResult
                              THEN [r EXCEPT !.removed = @ + ans.result]
                              ELSE r),
               err |-> "nil", req |-> Request(r.chunk, ans)]
         ELSE [r |-> r, err |-> ans.err, req |-> Request(r.chunk, ans)]

\* bulkRemover.Remove (prune.go:529-536).
bulkRemove(r, id, ans) ==
    LET r1 == [r EXCEPT !.chunk = Append(@, id), !.chunkSize = @ + 1]
    IN  IF r1.chunkSize >= maxBulkOps THEN bulkFlush(r1, ans)
        ELSE [r |-> r1, err |-> "nil", req |-> NoRequest]

\* The Remover interface (prune.go:465-469), dispatched on the strategy.
RemoverRemove(r, id, ans) ==
    IF r.kind = "batch" THEN batchRemove(r, id, ans) ELSE bulkRemove(r, id, ans)

RemoverFlush(r, ans) ==
    IF r.kind = "batch" THEN batchFlush(r, ans) ELSE bulkFlush(r, ans)

Removed(r) == r.removed

\* The identifiers a remover holds queued.
Queued(r) == IF r.kind = "batch" THEN r.queue ELSE r.chunk

Answers(r, n) == IF r.kind = "batch" THEN RemoveAllAnswers(n) ELSE BulkRunAnswers(n)

\* What the database reported deleted in answering a request without error.
Reported(req) ==
    IF req.issued /\ req.answer.err \in {"nil", "ErrNotFound"} /\ req.answer.result # NilResult
    THEN req.answer.result ELSE 0

\* k consecutive Remove(id) calls, none of which flushes: the first half of
\* the calls, then the rest (the test on the first half's value has it
\* computed before the second half starts).
RECURSIVE RemoveTimes(_, _, _)
RemoveTimes(r, id, k) ==
    IF k = 0 THEN r
    ELSE IF k = 1 THEN RemoverRemove(r, id, [err |-> "nil", result |-> 0]).r
    ELSE LET half == RemoveTimes(r, id, k \div 2)
         IN  IF half.kind = r.kind THEN RemoveTimes(half, id, k - (k \div 2)) ELSE half

NoCall == [op |-> "none", err |-> "nil", req |-> NoRequest, removedBefore |-> 0]

\* One call of Remove(id); the database answers ans if the call flushes.
Remove(id) ==
    /\ nCalls < MaxCalls
    /\ \E ans \in Answers(remover, Len(Queued(remover)) + 1) :
         LET out == RemoverRemove(remover, id, ans)
         IN  /\ remover' = out.r
             /\ lastCall' = [op |-> "Remove", err |-> out.err, req |-> out.req,
                             removedBefore |-> Removed(remover)]
             /\ dbDeleted' = dbDeleted + Reported(out.req)
    /\ nCalls' = nCalls + 1
    /\ UNCHANGED <<decVars, capVars, mayVars, engVars, timVars, colVars>>

\* A run of Remove(id) calls that fills the queue to maxBulkOps - Headroom;
\* none of them reaches the threshold, so none flushes.
RemoveRun(id) ==
    /\ nCalls < MaxCalls
    /\ Len(Queued(remover)) < maxBulkOps - Headroom
    /\ remover' = RemoveTimes(remover, id, maxBulkOps - Headroom - Len(Queued(remover)))
    /\ lastCall' = [op |-> "Remove", err |-> "nil", req |-> NoRequest,
                    removedBefore |-> Removed(remover)]
    /\ dbDeleted' = dbDeleted
    /\ nCalls' = nCalls + 1
    /\ UNCHANGED <<decVars, capVars, mayVars, engVars, timVars, colVars>>

\* One call of Flush().
Flush ==
    /\ nCalls < MaxCalls
    /\ \E ans \in Answers(remover, Len(Queued(remover))) :
         LET out == RemoverFlush(remover, ans)
         IN  /\ remover' = out.r
             /\ lastCall' = [op |-> "Flush", err |-> out.err, req |-> out.req,
                             removedBefore |-> Removed(remover)]
             /\ dbDeleted' = dbDeleted + Reported(out.req)
    /\ nCalls' = nCalls + 1
    /\ UNCHANGED <<decVars, capVars, mayVars, engVars, timVars, colVars>>

NextRemover ==
    \/ \E id \in Ids : Remove(id)
    \/ \E id \in Ids : RemoveRun(id)
    \/ Flush


\* C1: no delete request issued by a flush covers more than maxBulkOps
\* identifiers, whatever the database answered to earlier flushes.
C1_RequestWithinMaxBulkOps ==
    lastCall.req.issued => Len(lastCall.req.ids) <= maxBulkOps

C10_RemovedIsReportedDeleted ==
    /\ Removed(remover) = dbDeleted
    /\ Removed(remover) >= lastCall.removedBefore

\* C10 witness: an earlier flush deleted documents, and the last call's flush
\* failed with identifiers still queued.
C10_Witness ==
    /\ dbDeleted > 0
    /\ lastCall.req.issued
    /\ lastCall.err = "ErrOther"
    /\ Len(Queued(remover)) > 0

\* The first Len(p) elements of q are p.
IsPrefix(p, q) == Len(p) <= Len(q) /\ SubSeq(q, 1, Len(p)) = p

\* C19: every flush submits all the identifiers that were queued before the
\* call; and when the database answers a flush with an error other than
\* "not found", the call (Flush, or the Remove that flushed) returns that
\* error, the removed count stays what it was, and every identifier
\* submitted stays queued.
C19_FailedFlushKeepsQueue ==
    [][/\ lastCall'.req.issued => IsPrefix(Queued(remover), lastCall'.req.ids)
       /\ (lastCall'.req.issued /\ lastCall'.req.answer.err = "ErrOther") =>
              /\ lastCall'.err = "ErrOther"
              /\ Removed(remover') = Removed(remover)
              /\ Queued(remover') = lastCall'.req.ids
              /\ Len(Queued(remover')) >= Len(Queued(remover))]_vars

\* C19 witness: the flush of a Remove failed with the queue already over
\* maxBulkOps from an earlier failure, and everything is still queued.
C19_Witness ==
    /\ lastCall.op = "Remove"
    /\ lastCall.req.issued
    /\ lastCall.err = "ErrOther"
    /\ Len(Queued(remover)) > maxBulkOps
    /\ Queued(remover) = lastCall.req.ids

-----------------------------------------------------------------------------
(* The pruning decision: validatePruneOptions and shouldPrune              *)

\* prune.go:26, as the fraction num/den
defaultPruneFactor == [num |-> 2, den |-> 1]

\* prune.go:32
defaultMinNewTransactions == 100

\* prune.go:36
defaultMaxNewTransactions == 100000

\* prune.go:44
defaultSmallBatchTransactionCount == 1000

\* prune.go:50, in nanoseconds (time.Duration)
defaultBatchTransactionSleepTime == 10000000

\* The least batch size CleanAndPrune accepts; the constant is declared
\* outside prune.go.
pruneMinTxnBatchSize == 10

\* float32 keeps 24 significant bits.
TwoTo24 == 16777216

\* The spacing of the float32 values around n/d >= 2^23, found from u upwards.
RECURSIVE UlpFrom(_, _, _)
UlpFrom(n, d, u) == IF n < TwoTo24 * u * d THEN u ELSE UlpFrom(n, d, 2 * u)

\* n/d (n >= 0, d a power of two) rounded to the nearest multiple of u, ties
\* to the multiple with an even significand.
RoundToMultiple(n, d, u) ==
    LET q   == n \div (d * u)
        rem == n - q * d * u
    IN  IF 2 * rem < d * u THEN q * u
        ELSE IF 2 * rem > d * u THEN (q + 1) * u
        ELSE IF q % 2 = 0 THEN q * u ELSE (q + 1) * u

\* The float32 nearest to the fraction n/d, as a fraction. Below 2^23 a
\* fraction with a denominator of 1 or 2 is a float32 already.
Float32Abs(n, d) ==
    IF n < (TwoTo24 \div 2) * d THEN [num |-> n, den |-> d]
    ELSE [num |-> RoundToMultiple(n, d, UlpFrom(n, d, 1)), den |-> 1]

Float32(n, d) ==
    IF n >= 0 THEN Float32Abs(n, d)
    ELSE [num |-> 0 - Float32Abs(0 - n, d).num, den |-> Float32Abs(0 - n, d).den]

\* The conversion float32(i) of an int.
Float32OfInt(i) == Float32(i, 1)

\* The float32 product a * b of two float32 values.
Float32Mul(a, b) == Float32(a.num * b.num, a.den * b.den)

\* a >= b for fractions with positive denominators.
Float32Geq(a, b) == a.num * b.den >= b.num * a.den

\* A PruneFactor of 0 is the zero value of the field.
IsZeroFactor(f) == f.num = 0

\* validatePruneOptions as it would be incrementing a MaxBatches <= 0 instead
\* of setting it to 1.
validatePruneOptionsRaising(o) ==
    LET o1 == IF IsZeroFactor(o.PruneFactor)
              THEN [o EXCEPT !.PruneFactor = defaultPruneFactor] ELSE o
        o2 == IF o1.MinNewTransactions = 0
              THEN [o1 EXCEPT !.MinNewTransactions = defaultMinNewTransactions] ELSE o1
        o3 == IF o2.MaxNewTransactions = 0
              THEN [o2 EXCEPT !.MaxNewTransactions = defaultMaxNewTransactions] ELSE o2
        o4 == IF o3.MaxBatches <= 0 THEN [o3 EXCEPT !.MaxBatches = @ + 1] ELSE o3
        o5 == IF o4.BatchTransactionSleepTime < 0
              THEN [o4 EXCEPT !.BatchTransactionSleepTime = defaultBatchTransactionSleepTime]
              ELSE o4
    IN  IF o5.SmallBatchTransactionCount < pruneMinTxnBatchSize
        THEN [o5 EXCEPT !.SmallBatchTransactionCount = defaultSmallBatchTransactionCount]
        ELSE o5

\* validatePruneOptions (prune.go:89-108).
validatePruneOptions(o) ==
    LET o1 == IF IsZeroFactor(o.PruneFactor)
              THEN [o EXCEPT !.PruneFactor = defaultPruneFactor] ELSE o
        o2 == IF o1.MinNewTransactions = 0
              THEN [o1 EXCEPT !.MinNewTransactions = defaultMinNewTransactions] ELSE o1
        o3 == IF o2.MaxNewTransactions = 0
              THEN [o2 EXCEPT !.MaxNewTransactions = defaultMaxNewTransactions] ELSE o2
        o4 == IF o3.MaxBatches <= 0 THEN [o3 EXCEPT !.MaxBatches = 1] ELSE o3
        o5 == IF o4.BatchTransactionSleepTime < 0
              THEN [o4 EXCEPT !.BatchTransactionSleepTime = defaultBatchTransactionSleepTime]
              ELSE o4
    IN  IF o5.SmallBatchTransactionCount < pruneMinTxnBatchSize
        THEN [o5 EXCEPT !.SmallBatchTransactionCount = defaultSmallBatchTransactionCount]
        ELSE o5

\* shouldPrune (prune.go:110-126): the decision and its rationale.
shouldPrune(old, new, o) ==
    IF old < 0 THEN [required |-> TRUE, rationale |-> "no pruning run found"]
    ELSE LET difference == new - old
             factored   == Float32Mul(Float32OfInt(old), o.PruneFactor)
         IN  IF difference < o.MinNewTransactions
             THEN [required |-> FALSE, rationale |-> "not enough new transactions"]
             ELSE IF difference > o.MaxNewTransactions
             THEN [required |-> TRUE, rationale |-> "too many new transactions"]
             ELSE IF Float32Geq(Float32OfInt(new), factored)
             THEN [required |-> TRUE, rationale |-> "transactions have grown significantly"]
             ELSE [required |-> FALSE, rationale |-> "transactions have not grown significantly"]

\* Inputs of the decision.
LargeCount == TwoTo24 + 1       \* the first int float32 cannot hold
OldCounts == {-1, 0, 1000, LargeCount}
NewCounts == {0, 1050, 1150, 2100, 101101, 2 * LargeCount - 1, 2 * LargeCount}
FactorInputs == {[num |-> 0, den |-> 1], [num |-> 3, den |-> 2]}
MinNewInputs == {0, 1}
MaxNewInputs == {0, 4 * TwoTo24}

MaxBatchesInputs == {-1, 0, 3}
SleepTimeInputs == {-1, 0, defaultBatchTransactionSleepTime + 1}
BatchCountInputs == {-1, 0, pruneMinTxnBatchSize - 1, pruneMinTxnBatchSize,
                     defaultSmallBatchTransactionCount + 1}

OptionInputs ==
    [PruneFactor : FactorInputs,
     MinNewTransactions : MinNewInputs,
     MaxNewTransactions : MaxNewInputs,
     MaxBatches : MaxBatchesInputs,
     BatchTransactionSleepTime : SleepTimeInputs,
     SmallBatchTransactionCount : BatchCountInputs]

NoDecision == [required |-> FALSE, rationale |-> "none"]

\* The options before a caller has set any.
NoOptions ==
    [PruneFactor |-> [num |-> 0, den |-> 1], MinNewTransactions |-> 0,
     MaxNewTransactions |-> 0, MaxBatches |-> 0,
     BatchTransactionSleepTime |-> 0, SmallBatchTransactionCount |-> 0]

\* maybePrune resolves the options first (prune.go:129) ...
ValidateOptions ==
    /\ dpc = "start"
    /\ pruneOptions' = validatePruneOptions(pruneOptions)
    /\ dpc' = "validated"
    /\ UNCHANGED <<oldCount, newCount, decision>>
    /\ UNCHANGED <<remVars, capVars, mayVars, engVars, timVars, colVars>>

\* ... and decides on the two counts (prune.go:145).
Decide ==
    /\ dpc = "validated"
    /\ decision' = shouldPrune(oldCount, newCount, pruneOptions)
    /\ dpc' = "decided"
    /\ UNCHANGED <<oldCount, newCount, pruneOptions>>
    /\ UNCHANGED <<remVars, capVars, mayVars, engVars, timVars, colVars>>

NextDecide ==
    \/ ValidateOptions
    \/ Decide

\* The rules of the decision read over the exact numbers.
ExactRule(old, new, o) ==
    IF old < 0 THEN TRUE
    ELSE IF new - old < o.MinNewTransactions THEN FALSE
    ELSE IF new - old > o.MaxNewTransactions THEN TRUE
    ELSE new * o.PruneFactor.den >= old * o.PruneFactor.num

\* C6: shouldPrune returns what the first applicable rule gives: true for
\* oldCount < 0, false for growth under MinNewTransactions, true for growth
\* over MaxNewTransactions, and otherwise whether newCount >= oldCount * PruneFactor.
C6_ShouldPruneFollowsRules ==
    dpc = "decided" => decision.required = ExactRule(oldCount, newCount, pruneOptions)

\* C12: validatePruneOptions applied to the configuration it has already
\* resolved gives that configuration again, field for field.
C12_ValidateIsIdempotent ==
    dpc # "start" =>
        LET again == validatePruneOptions(pruneOptions)
        IN  /\ again.PruneFactor = pruneOptions.PruneFactor
            /\ again.MinNewTransactions = pruneOptions.MinNewTransactions
            /\ again.MaxNewTransactions = pruneOptions.MaxNewTransactions
            /\ again.MaxBatches = pruneOptions.MaxBatches
            /\ again.BatchTransactionSleepTime = pruneOptions.BatchTransactionSleepTime
            /\ again.SmallBatchTransactionCount = pruneOptions.SmallBatchTransactionCount

\* C12 witness: a configuration resolved with every default substituted (no
\* input carries these values).
C12_Witness ==
    /\ dpc = "validated"
    /\ pruneOptions.PruneFactor = defaultPruneFactor
    /\ pruneOptions.MinNewTransactions = defaultMinNewTransactions
    /\ pruneOptions.MaxNewTransactions = defaultMaxNewTransactions
    /\ pruneOptions.MaxBatches = 1
    /\ pruneOptions.BatchTransactionSleepTime = defaultBatchTransactionSleepTime
    /\ pruneOptions.SmallBatchTransactionCount = defaultSmallBatchTransactionCount

-----------------------------------------------------------------------------
(* CleanAndPrune: validation, the sweeps, the reporter                     *)

\* The batch-size and sleep limits of CleanAndPruneArgs.validate; the
\* constants are declared outside prune.go.
pruneTxnBatchSize == 1000
pruneMaxTxnBatchSize == 1000000
maxBatchSleepTime == 1000000000   \* nanoseconds

\* Bounds of the CleanAndPrune specification.
MaxTxns == 2       \* eligible transactions in the txns collection: 1..MaxTxns
MaxLogs == 1       \* progress lines the reporter logs in one run

Sweeps == {"fwd", "rev"}

\* An error value: its message and how many times errors.Trace wrapped it.
\* nilErr is the nil error.
nilErr == [msg |-> "nil", traced |-> 0]

\* errors.New / errors.Errorf.
NewErr(msg) == [msg |-> msg, traced |-> 0]

\* errors.Trace keeps nil nil and otherwise wraps the error once more.
Trace(err) == IF err = nilErr THEN nilErr ELSE [err EXCEPT !.traced = @ + 1]

\* errors.Cause: the error under the wrapping.
Cause(err) == [err EXCEPT !.traced = 0]

ZeroPrunerStats ==
    [TxnsRemoved |-> 0, DocQueuesCleaned |-> 0, StashDocsRemoved |-> 0,
     DocCacheHits |-> 0, DocCacheMisses |-> 0, CollectionQueries |-> 0,
     ShouldRetry |-> FALSE]

\* The zero value of CleanupStats (prune.go:254-273, 306).
ZeroCleanupStats ==
    [CollectionsInspected |-> 0, DocsInspected |-> 0, DocsCleaned |-> 0,
     StashDocumentsRemoved |-> 0, TransactionsRemoved |-> 0, ShouldRetry |-> FALSE]

\* CombineStats: field-wise addition, the retry flags or-ed.
CombineStats(a, b) ==
    [TxnsRemoved |-> a.TxnsRemoved + b.TxnsRemoved,
     DocQueuesCleaned |-> a.DocQueuesCleaned + b.DocQueuesCleaned,
     StashDocsRemoved |-> a.StashDocsRemoved + b.StashDocsRemoved,
     DocCacheHits |-> a.DocCacheHits + b.DocCacheHits,
     DocCacheMisses |-> a.DocCacheMisses + b.DocCacheMisses,
     CollectionQueries |-> a.CollectionQueries + b.CollectionQueries,
     ShouldRetry |-> a.ShouldRetry \/ b.ShouldRetry]

\* CleanAndPruneArgs.validate as it would be without the upper limit on
\* TxnBatchSize.
validateNoUpperLimit(a) ==
    IF a.Txns = "nil" THEN [args |-> a, err |-> NewErr("nil Txns not valid")]
    ELSE IF a.TxnBatchSleepTime < 0 \/ a.TxnBatchSleepTime > maxBatchSleepTime
    THEN [args |-> a, err |-> NewErr("TxnBatchSleepTime out of range")]
    ELSE LET a1 == IF a.TxnBatchSize = 0
                   THEN [a EXCEPT !.TxnBatchSize = pruneTxnBatchSize] ELSE a
         IN  IF a1.TxnBatchSize < pruneMinTxnBatchSize
             THEN [args |-> a1, err |-> NewErr("TxnBatchSize too small")]
             ELSE [args |-> a1, err |-> nilErr]

\* CleanAndPruneArgs.validate (prune.go:229-250): the arguments as it leaves
\* them and the error it returns.
validate(a) ==
    IF a.Txns = "nil" THEN [args |-> a, err |-> NewErr("nil Txns not valid")]
    ELSE IF a.TxnBatchSleepTime < 0 \/ a.TxnBatchSleepTime > maxBatchSleepTime
    THEN [args |-> a, err |-> NewErr("TxnBatchSleepTime out of range")]
    ELSE LET a1 == IF a.TxnBatchSize = 0
                   THEN [a EXCEPT !.TxnBatchSize = pruneTxnBatchSize] ELSE a
         IN  IF a1.TxnBatchSize < pruneMinTxnBatchSize
             THEN [args |-> a1, err |-> NewErr("TxnBatchSize too small")]
             ELSE IF a1.TxnBatchSize > pruneMaxTxnBatchSize
             THEN [args |-> a1, err |-> NewErr("TxnBatchSize too big")]
             ELSE [args |-> a1, err |-> nilErr]

ConfigErrors ==
    {NewErr("nil Txns not valid"), NewErr("TxnBatchSleepTime out of range"),
     NewErr("TxnBatchSize too small"), NewErr("TxnBatchSize too big")}

\* The IncrementalPruneArgs as they would be with a horizon later than the
\* caller's MaxTime.
IncrementalPruneArgsLaterHorizon(a, reversed) ==
    [MaxTime |-> a.MaxTime + 1,
     ProgressChannel |-> "progressCh",
     ReverseOrder |-> reversed,
     TxnBatchSize |-> a.TxnBatchSize,
     TxnBatchSleepTime |-> a.TxnBatchSleepTime]

\* The IncrementalPruneArgs the closure prune builds (prune.go:319-325).
IncrementalPruneArgs(a, reversed) ==
    [MaxTime |-> a.MaxTime,
     ProgressChannel |-> "progressCh",
     ReverseOrder |-> reversed,
     TxnBatchSize |-> a.TxnBatchSize,
     TxnBatchSleepTime |-> a.TxnBatchSleepTime]

NoMsg == [TxnsRemoved |-> 0, DocsCleaned |-> 0]

\* NewIncrementalPruner: a pruner that has evaluated nothing yet.
NewIncrementalPruner(pargs) ==
    [args |-> pargs, evaluated |-> 0, stats |-> ZeroPrunerStats, err |-> nilErr,
     msg |-> NoMsg]

\* The processing cap the engine works under: the one its arguments carry,
\* 0 (no cap) when they carry none.
EngineCap(pargs) ==
    IF "MaxTransactionsToProcess" \in DOMAIN pargs
    THEN pargs.MaxTransactionsToProcess ELSE 0

\* The transaction a sweep evaluates after n others: oldest first, or newest
\* first in reverse order.
NextTxn(pargs, n) == IF pargs.ReverseOrder THEN MaxTxns - n ELSE n + 1

\* The engine's counters for evaluating transaction t: found and removed with
\* the documents it touched, or already gone.
Work(t) ==
    [TxnsRemoved |-> 1, DocQueuesCleaned |-> t, StashDocsRemoved |-> t - 1,
     DocCacheHits |-> 0, DocCacheMisses |-> t, CollectionQueries |-> 1,
     ShouldRetry |-> FALSE]

Gone == [ZeroPrunerStats EXCEPT !.DocCacheHits = 1]

\* The error a failing sweep returns.
SweepErr(s) ==
    IF s = "fwd" THEN NewErr("forward sweep failed") ELSE NewErr("reverse sweep failed")

\* prune.go:329-333 as it would be keeping the latest error.
recordErrLatest(any, err) == IF err # nilErr THEN Trace(err) ELSE any

\* The closure's error bookkeeping (prune.go:329-333): the new value of anyErr.
recordErr(any, err) == IF any = nilErr THEN Trace(err) ELSE any

\* mu.Lock as it would be with no mutual exclusion.
CanLockAlways(m) == TRUE

\* mu.Lock (prune.go:327) goes through when nobody holds the mutex.
CanLock(m) == m = "free"

\* The receive from stop as it would be ready at any time.
StopReadyAlways(closed) == TRUE

\* The receive from stop in the reporter's select (prune.go:283) is ready
\* once stop is closed.
StopReady(closed) == closed

\* wg.Wait as it would be returning at once.
WaitReturnsAtOnce(n) == TRUE

\* wg.Wait (prune.go:343) returns when the counter is zero.
WaitReturns(n) == n = 0

\* The statistics CleanAndPrune returns on success, as they would be with
\* cache hits left out of DocsInspected.
ToCleanupStatsMissesOnly(ps) ==
    [ZeroCleanupStats EXCEPT
        !.TransactionsRemoved = ps.TxnsRemoved,
        !.DocsCleaned = ps.DocQueuesCleaned,
        !.StashDocumentsRemoved = ps.StashDocsRemoved,
        !.DocsInspected = ps.DocCacheMisses,
        !.CollectionsInspected = ps.CollectionQueries]

\* The statistics CleanAndPrune returns on success (prune.go:353-357).
ToCleanupStats(ps) ==
    [ZeroCleanupStats EXCEPT
        !.TransactionsRemoved = ps.TxnsRemoved,
        !.DocsCleaned = ps.DocQueuesCleaned,
        !.StashDocumentsRemoved = ps.StashDocsRemoved,
        !.DocsInspected = ps.DocCacheMisses + ps.DocCacheHits,
        !.CollectionsInspected = ps.CollectionQueries]

\* Inputs of CleanAndPrune.
ArgInputs ==
    [Txns : {"nil", "txns"},
     MaxTime : {1},
     MaxTransactionsToProcess : {0, 1},
     Multithreaded : BOOLEAN,
     TxnBatchSize : {0, pruneMinTxnBatchSize - 1, pruneMinTxnBatchSize,
                     pruneMaxTxnBatchSize + 1},
     TxnBatchSleepTime : {-1, 0, maxBatchSleepTime + 1}]

NoArgs ==
    [Txns |-> "nil", MaxTime |-> 0, MaxTransactionsToProcess |-> 0,
     Multithreaded |-> FALSE, TxnBatchSize |-> 0, TxnBatchSleepTime |-> 0]

NoResult == [stats |-> ZeroCleanupStats, err |-> nilErr]

NoReporter == [state |-> "none", txnsRemoved |-> 0, docsCleaned |-> 0, logged |-> 0]

NoPruner == NewIncrementalPruner(IncrementalPruneArgs(NoArgs, FALSE))

\* prune.go:308-310: validate, and return its error with the zero statistics.
Validate ==
    /\ mpc = "validate"
    /\ args' = validate(args).args
    /\ IF validate(args).err # nilErr
       THEN /\ result' = [stats |-> ZeroCleanupStats, err |-> validate(args).err]
            /\ mpc' = "returned"
       ELSE /\ result' = result
            /\ mpc' = "start"
    /\ UNCHANGED <<reporter, stopClosed, wg, mu, pstats, anyErr, spc, pruner, loaded,
                   launches, recorded, txnsColl, dbOps>>
    /\ UNCHANGED <<remVars, decVars, mayVars, engVars, timVars, colVars>>

\* prune.go:311-313: the channels are made and the reporting goroutine starts.
StartReportingThread ==
    /\ mpc = "start"
    /\ reporter' = [state |-> "running", txnsRemoved |-> 0, docsCleaned |-> 0, logged |-> 0]
    /\ mpc' = "fork"
    /\ UNCHANGED <<args, result, stopClosed, wg, mu, pstats, anyErr, spc, pruner, loaded,
                   launches, recorded, txnsColl, dbOps>>
    /\ UNCHANGED <<remVars, decVars, mayVars, engVars, timVars, colVars>>

\* prune.go:337-338: wg.Add(1) for the reverse sweep, when Multithreaded.
ForkAdd ==
    /\ mpc = "fork"
    /\ IF args.Multithreaded
       THEN wg' = wg + 1 /\ mpc' = "go"
       ELSE wg' = wg /\ mpc' = "add"
    /\ UNCHANGED <<args, result, reporter, stopClosed, mu, pstats, anyErr, spc, pruner,
                   loaded, launches, recorded, txnsColl, dbOps>>
    /\ UNCHANGED <<remVars, decVars, mayVars, engVars, timVars, colVars>>

\* A sweep starts: the closure builds its pruner (prune.go:319-325) and calls
\* Prune.
StartSweep(s) ==
    /\ spc' = [spc EXCEPT ![s] = "prune"]
    /\ pruner' = [pruner EXCEPT
                    ![s] = NewIncrementalPruner(IncrementalPruneArgs(args, s = "rev"))]
    /\ launches' = [launches EXCEPT ![s] = @ + 1]

\* prune.go:339: go prune(true).
GoReverse ==
    /\ mpc = "go"
    /\ StartSweep("rev")
    /\ mpc' = "add"
    /\ UNCHANGED <<args, result, reporter, stopClosed, wg, mu, pstats, anyErr, loaded,
                   recorded, txnsColl, dbOps>>
    /\ UNCHANGED <<remVars, decVars, mayVars, engVars, timVars, colVars>>

\* prune.go:341: wg.Add(1) for the forward sweep.
AddForward ==
    /\ mpc = "add"
    /\ wg' = wg + 1
    /\ mpc' = "call"
    /\ UNCHANGED <<args, result, reporter, stopClosed, mu, pstats, anyErr, spc, pruner,
                   loaded, launches, recorded, txnsColl, dbOps>>
    /\ UNCHANGED <<remVars, decVars, mayVars, engVars, timVars, colVars>>

\* prune.go:342: prune(false), run by the caller itself.
CallForward ==
    /\ mpc = "call"
    /\ StartSweep("fwd")
    /\ mpc' = "pruning"
    /\ UNCHANGED <<args, result, reporter, stopClosed, wg, mu, pstats, anyErr, loaded,
                   recorded, txnsColl, dbOps>>
    /\ UNCHANGED <<remVars, decVars, mayVars, engVars, timVars, colVars>>

\* prune.go:343: wg.Wait().
Wait ==
    /\ mpc = "wait"
    /\ WaitReturns(wg)
    /\ mpc' = "close"
    /\ UNCHANGED <<args, result, reporter, stopClosed, wg, mu, pstats, anyErr, spc, pruner,
                   loaded, launches, recorded, txnsColl, dbOps>>
    /\ UNCHANGED <<remVars, decVars, mayVars, engVars, timVars, colVars>>

\* prune.go:344: close(stop).
CloseStop ==
    /\ mpc = "close"
    /\ stopClosed' = TRUE
    /\ mpc' = "finish"
    /\ UNCHANGED <<args, result, reporter, wg, mu, pstats, anyErr, spc, pruner, loaded,
                   launches, recorded, txnsColl, dbOps>>
    /\ UNCHANGED <<remVars, decVars, mayVars, engVars, timVars, colVars>>

\* prune.go:345-358: the error with the zero statistics, or the statistics.
Return ==
    /\ mpc = "finish"
    /\ result' = IF anyErr # nilErr
                 THEN [stats |-> ZeroCleanupStats, err |-> Trace(anyErr)]
                 ELSE [stats |-> ToCleanupStats(pstats), err |-> nilErr]
    /\ mpc' = "returned"
    /\ UNCHANGED <<args, reporter, stopClosed, wg, mu, pstats, anyErr, spc, pruner, loaded,
                   launches, recorded, txnsColl, dbOps>>
    /\ UNCHANGED <<remVars, decVars, mayVars, engVars, timVars, colVars>>

\* ---- pruner.Prune, the engine's sweep (prune.go:326)

\* The engine evaluates its next resolved transaction: it removes it, with the
\* work on the documents it touched, or finds it gone already; work done is
\* reported on the progress channel next.
EngineEvaluate(s) ==
    /\ spc[s] = "prune"
    /\ pruner[s].evaluated < MaxTxns
    /\ EngineCap(pruner[s].args) = 0 \/ pruner[s].evaluated < EngineCap(pruner[s].args)
    /\ LET t     == NextTxn(pruner[s].args, pruner[s].evaluated)
           delta == IF t \in txnsColl THEN Work(t) ELSE Gone
       IN  /\ txnsColl' = txnsColl \ {t}
           /\ pruner' = [pruner EXCEPT
                           ![s].evaluated = @ + 1,
                           ![s].stats = CombineStats(@, delta),
                           ![s].msg = [TxnsRemoved |-> delta.TxnsRemoved,
                                       DocsCleaned |-> delta.DocQueuesCleaned]]
           /\ spc' = [spc EXCEPT ![s] = IF delta.TxnsRemoved > 0 THEN "send" ELSE "prune"]
    /\ dbOps' = dbOps + 1
    /\ UNCHANGED <<args, mpc, result, reporter, stopClosed, wg, mu, pstats, anyErr, loaded,
                   launches, recorded>>
    /\ UNCHANGED <<remVars, decVars, mayVars, engVars, timVars, colVars>>

\* The send on the unbuffered progress channel meets the reporter's receive
\* (prune.go:285-287).
Progress(s) ==
    /\ spc[s] = "send"
    /\ reporter.state = "running"
    /\ reporter' = [reporter EXCEPT !.txnsRemoved = @ + pruner[s].msg.TxnsRemoved,
                                    !.docsCleaned = @ + pruner[s].msg.DocsCleaned]
    /\ pruner' = [pruner EXCEPT ![s].msg = NoMsg]
    /\ spc' = [spc EXCEPT ![s] = "prune"]
    /\ UNCHANGED <<args, mpc, result, stopClosed, wg, mu, pstats, anyErr, loaded,
                   launches, recorded, txnsColl, dbOps>>
    /\ UNCHANGED <<remVars, decVars, mayVars, engVars, timVars, colVars>>

\* Prune returns, with its statistics: every eligible transaction evaluated
\* (outcome "done"); stopped at a cap with transactions left (outcome "cap":
\* the retry flag is set); or failed (outcome "fail": an error is returned).
EngineReturn(s, outcome) ==
    /\ spc[s] = "prune"
    /\ outcome = "done" => pruner[s].evaluated = MaxTxns
    /\ outcome = "cap" => pruner[s].evaluated < MaxTxns
    /\ pruner' = [pruner EXCEPT
                    ![s].stats.ShouldRetry = (outcome = "cap"),
                    ![s].err = IF outcome = "fail" THEN SweepErr(s) ELSE nilErr]
    /\ spc' = [spc EXCEPT ![s] = "lock"]
    /\ UNCHANGED <<args, mpc, result, reporter, stopClosed, wg, mu, pstats, anyErr, loaded,
                   launches, recorded, txnsColl, dbOps>>
    /\ UNCHANGED <<remVars, decVars, mayVars, engVars, timVars, colVars>>

\* ---- the rest of the closure prune (prune.go:327-335)

\* prune.go:327: mu.Lock().
Lock(s) ==
    /\ spc[s] = "lock"
    /\ CanLock(mu)
    /\ mu' = s
    /\ spc' = [spc EXCEPT ![s] = "load"]
    /\ UNCHANGED <<args, mpc, result, reporter, stopClosed, wg, pstats, anyErr, pruner,
                   loaded, launches, recorded, txnsColl, dbOps>>
    /\ UNCHANGED <<remVars, decVars, mayVars, engVars, timVars, colVars>>

\* prune.go:328, the read of pstats.
LoadStats(s) ==
    /\ spc[s] = "load"
    /\ loaded' = [loaded EXCEPT ![s] = pstats]
    /\ spc' = [spc EXCEPT ![s] = "store"]
    /\ UNCHANGED <<args, mpc, result, reporter, stopClosed, wg, mu, pstats, anyErr, pruner,
                   launches, recorded, txnsColl, dbOps>>
    /\ UNCHANGED <<remVars, decVars, mayVars, engVars, timVars, colVars>>

\* prune.go:328, the write of pstats.
StoreStats(s) ==
    /\ spc[s] = "store"
    /\ pstats' = CombineStats(loaded[s], pruner[s].stats)
    /\ spc' = [spc EXCEPT ![s] = "err"]
    /\ UNCHANGED <<args, mpc, result, reporter, stopClosed, wg, mu, anyErr, pruner, loaded,
                   launches, recorded, txnsColl, dbOps>>
    /\ UNCHANGED <<remVars, decVars, mayVars, engVars, timVars, colVars>>

\* prune.go:329-333: the first error is kept, a later one only logged.
RecordErr(s) ==
    /\ spc[s] = "err"
    /\ anyErr' = recordErr(anyErr, pruner[s].err)
    /\ recorded' = Append(recorded, s)
    /\ spc' = [spc EXCEPT ![s] = "unlock"]
    /\ UNCHANGED <<args, mpc, result, reporter, stopClosed, wg, mu, pstats, pruner, loaded,
                   launches, txnsColl, dbOps>>
    /\ UNCHANGED <<remVars, decVars, mayVars, engVars, timVars, colVars>>

\* prune.go:334: mu.Unlock().
Unlock(s) ==
    /\ spc[s] = "unlock"
    /\ mu' = "free"
    /\ spc' = [spc EXCEPT ![s] = "done"]
    /\ UNCHANGED <<args, mpc, result, reporter, stopClosed, wg, pstats, anyErr, pruner,
                   loaded, launches, recorded, txnsColl, dbOps>>
    /\ UNCHANGED <<remVars, decVars, mayVars, engVars, timVars, colVars>>

\* prune.go:335: wg.Done(); the closure returns, and with the forward sweep
\* the caller goes on to wg.Wait().
Done(s) ==
    /\ spc[s] = "done"
    /\ wg' = wg - 1
    /\ spc' = [spc EXCEPT ![s] = "exit"]
    /\ mpc' = IF s = "fwd" THEN "wait" ELSE mpc
    /\ UNCHANGED <<args, result, reporter, stopClosed, mu, pstats, anyErr, pruner, loaded,
                   launches, recorded, txnsColl, dbOps>>
    /\ UNCHANGED <<remVars, decVars, mayVars, engVars, timVars, colVars>>

\* ---- the reporting goroutine (prune.go:278-299)

\* prune.go:283-284: stop is closed, the goroutine returns.
ReporterStop ==
    /\ reporter.state = "running"
    /\ StopReady(stopClosed)
    /\ reporter' = [reporter EXCEPT !.state = "exited"]
    /\ UNCHANGED <<args, mpc, result, stopClosed, wg, mu, pstats, anyErr, spc, pruner,
                   loaded, launches, recorded, txnsColl, dbOps>>
    /\ UNCHANGED <<remVars, decVars, mayVars, engVars, timVars, colVars>>

\* prune.go:288-296: the timer fires and a progress line is logged.
ReporterLog ==
    /\ reporter.state = "running"
    /\ reporter.logged < MaxLogs
    /\ reporter' = [reporter EXCEPT !.logged = @ + 1]
    /\ UNCHANGED <<args, mpc, result, stopClosed, wg, mu, pstats, anyErr, spc, pruner,
                   loaded, launches, recorded, txnsColl, dbOps>>
    /\ UNCHANGED <<remVars, decVars, mayVars, engVars, timVars, colVars>>

Next ==
    \/ Validate
    \/ StartReportingThread
    \/ ForkAdd
    \/ GoReverse
    \/ AddForward
    \/ CallForward
    \/ Wait
    \/ CloseStop
    \/ Return
    \/ \E s \in Sweeps : EngineEvaluate(s)
    \/ \E s \in Sweeps : Progress(s)
    \/ \E s \in Sweeps, outcome \in {"done", "cap", "fail"} : EngineReturn(s, outcome)
    \/ \E s \in Sweeps : Lock(s)
    \/ \E s \in Sweeps : LoadStats(s)
    \/ \E s \in Sweeps : StoreStats(s)
    \/ \E s \in Sweeps : RecordErr(s)
    \/ \E s \in Sweeps : Unlock(s)
    \/ \E s \in Sweeps : Done(s)
    \/ ReporterStop
    \/ ReporterLog

\* ---- properties of CleanAndPrune

\* The arguments pass validation.
Validated == validate(args).err = nilErr

\* The sweeps that were started.
Launched == {s \in Sweeps : launches[s] > 0}

\* The error of the first sweep, in the order the results were recorded, that
\* returned one; "nil" when none did.
RECURSIVE FirstErrorIn(_)
FirstErrorIn(order) ==
    IF order = <<>> THEN nilErr
    ELSE IF pruner[Head(order)].err # nilErr THEN pruner[Head(order)].err
    ELSE FirstErrorIn(Tail(order))

\* The error returned is (errors.Trace's wrapping of) the first one recorded,
\* and there is one exactly when a sweep returned one.
ReturnsFirstSweepError ==
    /\ (result.err # nilErr) <=> (\E s \in Launched : pruner[s].err # nilErr)
    /\ Cause(result.err) = FirstErrorIn(recorded)

\* C2, as stated: whenever CleanAndPrune has returned, its error is non-nil
\* exactly when a sweep returned an error, and is the first one recorded.
C2_ErrorIffSweepError ==
    mpc = "returned" => ReturnsFirstSweepError

\* C2, amended: the same for a call whose arguments pass validation (a call
\* whose arguments do not returns the configuration error, with no sweep run).
C2_FirstSweepErrorReturned ==
    (mpc = "returned" /\ Validated) => ReturnsFirstSweepError

\* C2 witness: both sweeps failed, the reverse one recorded first, and its
\* error is the one returned.
C2_Witness ==
    /\ mpc = "returned"
    /\ recorded = <<"rev", "fwd">>
    /\ pruner["fwd"].err # nilErr
    /\ pruner["rev"].err # nilErr
    /\ Cause(result.err) = SweepErr("rev")

\* An engine counter summed over the sweeps (a sweep never started counts 0).
SumOfSweeps(field) == pruner["fwd"].stats[field] + pruner["rev"].stats[field]

\* C3: when no sweep fails, the statistics returned are the sums of the
\* sweeps' engine counters, DocsInspected the sum of cache hits and misses.
C3_StatsAreSumOfSweeps ==
    (mpc = "returned" /\ \A s \in Sweeps : pruner[s].err = nilErr) =>
        /\ result.stats.TransactionsRemoved = SumOfSweeps("TxnsRemoved")
        /\ result.stats.DocsCleaned = SumOfSweeps("DocQueuesCleaned")
        /\ result.stats.StashDocumentsRemoved = SumOfSweeps("StashDocsRemoved")
        /\ result.stats.CollectionsInspected = SumOfSweeps("CollectionQueries")
        /\ result.stats.DocsInspected =
               SumOfSweeps("DocCacheHits") + SumOfSweeps("DocCacheMisses")

\* C3 witness: two sweeps ran to the end without error, each removed a
\* transaction, and the call returned.
C3_Witness ==
    /\ mpc = "returned"
    /\ result.err = nilErr
    /\ \A s \in Sweeps : pruner[s].stats.TxnsRemoved > 0 /\ pruner[s].err = nilErr
    /\ SumOfSweeps("DocCacheHits") > 0

\* C4: with MaxTransactionsToProcess = N > 0 no sweep evaluates more than N
\* resolved transactions.
C4_SweepsHonourProcessingCap ==
    args.MaxTransactionsToProcess > 0 =>
        \A s \in Sweeps : pruner[s].evaluated <= args.MaxTransactionsToProcess

\* C5: when a sweep stopped at a cap with eligible transactions left, the
\* statistics CleanAndPrune returns have ShouldRetry set.
C5_RetryFlagReturned ==
    (mpc = "returned" /\ \E s \in Launched : pruner[s].stats.ShouldRetry) =>
        result.stats.ShouldRetry

\* C7: one forward sweep is started, and one reverse sweep exactly when
\* Multithreaded is set, never more; and stop is not closed, nor the call
\* finished, before every sweep started has completed and recorded its result.
C7_SweepsLaunchedAndJoined ==
    /\ launches["fwd"] <= 1
    /\ launches["rev"] <= (IF args.Multithreaded THEN 1 ELSE 0)
    /\ (Validated /\ mpc \in {"pruning", "wait", "close", "finish", "returned"}) =>
           /\ launches["fwd"] = 1
           /\ launches["rev"] = (IF args.Multithreaded THEN 1 ELSE 0)
    /\ (stopClosed \/ mpc \in {"finish", "returned"}) =>
           \A s \in Launched :
               spc[s] = "exit" /\ (\E i \in 1 .. Len(recorded) : recorded[i] = s)

\* C7 witness: a Multithreaded call returned after the reverse sweep recorded
\* its result later than the forward one.
C7_Witness ==
    /\ mpc = "returned"
    /\ args.Multithreaded
    /\ recorded = <<"fwd", "rev">>
    /\ stopClosed

\* Invalid arguments, by the documented limits: a nil Txns, a sleep time
\* outside [0, maxBatchSleepTime], a batch size (0 read as pruneTxnBatchSize)
\* outside [pruneMinTxnBatchSize, pruneMaxTxnBatchSize].
InvalidArgs(a) ==
    \/ a.Txns = "nil"
    \/ a.TxnBatchSleepTime < 0
    \/ a.TxnBatchSleepTime > maxBatchSleepTime
    \/ LET size == IF a.TxnBatchSize = 0 THEN pruneTxnBatchSize ELSE a.TxnBatchSize
       IN  size < pruneMinTxnBatchSize \/ size > pruneMaxTxnBatchSize

\* C8: with invalid arguments no reporter is started, no sweep is launched, no
\* database operation is issued, and the call returns a configuration error
\* with the zero statistics.
C8_InvalidArgsDoNothing ==
    InvalidArgs(args) =>
        /\ mpc \in {"validate", "returned"}
        /\ reporter = NoReporter
        /\ ~stopClosed
        /\ \A s \in Sweeps : launches[s] = 0 /\ spc[s] = "idle"
        /\ dbOps = 0
        /\ txnsColl = 1 .. MaxTxns
        /\ mpc = "returned" =>
               result.err \in ConfigErrors /\ result.stats = ZeroCleanupStats

\* C8 witness: a call with a TxnBatchSize over the maximum has returned.
C8_Witness ==
    /\ mpc = "returned"
    /\ args.Txns # "nil"
    /\ args.TxnBatchSleepTime = 0
    /\ args.TxnBatchSize > pruneMaxTxnBatchSize

\* ---- CleanAndPrune under fair scheduling

\* The steps of the calling goroutine, of a sweep and of the reporter.
MainStep ==
    \/ Validate
    \/ StartReportingThread
    \/ ForkAdd
    \/ GoReverse
    \/ AddForward
    \/ CallForward
    \/ Wait
    \/ CloseStop
    \/ Return

SweepStep(s) ==
    \/ EngineEvaluate(s)
    \/ \E outcome \in {"done", "cap", "fail"} : EngineReturn(s, outcome)
    \/ Lock(s)
    \/ LoadStats(s)
    \/ StoreStats(s)
    \/ RecordErr(s)
    \/ Unlock(s)
    \/ Done(s)

\* Every goroutine that can take a step goes on to take one; the work of a
\* sweep's engine comes to an end; a send waiting on the progress channel is
\* taken by the reporter's select, and so is the closed stop channel.
Fairness ==
    /\ WF_vars(MainStep)
    /\ \A s \in Sweeps : WF_vars(SweepStep(s))
    /\ \A s \in Sweeps : WF_vars(Progress(s))
    /\ WF_vars(ReporterStop)

\* C17: a send on the progress channel is always eventually received, and a
\* call whose arguments passed validation returns, with the reporting
\* goroutine ended.
C17_SendsReceivedAndCallReturns ==
    /\ \A s \in Sweeps : (spc[s] = "send") ~> (spc[s] # "send")
    /\ (mpc = "start") ~> (mpc = "returned" /\ reporter.state = "exited")

\* C17 witness: a dual-direction call has returned and the reporter has
\* ended, having received the progress of every transaction removed.
C17_Witness ==
    /\ mpc = "returned"
    /\ args.Multithreaded
    /\ reporter.state = "exited"
    /\ reporter.txnsRemoved = MaxTxns
    /\ \A s \in Sweeps : pruner[s].stats.TxnsRemoved > 0

-----------------------------------------------------------------------------
(* txnCollections: the collections that may hold transaction references    *)

\* A name is the sequence of its characters.
Dot == <<".">>
StashSuffix == <<".", "s", "t", "a", "s", "h">>
PruneSuffix == <<".", "p", "r", "u", "n", "e">>
NameTxns == <<"t", "x", "n", "s">>
NameT == <<"t">>
NameStatusesHistory ==
    <<"s", "t", "a", "t", "u", "s", "e", "s", "h", "i", "s", "t", "o", "r", "y">>
NameSystem == <<"s", "y", "s", "t", "e", "m">>
NameSystemIndexes == NameSystem \o <<".", "i", "n", "d", "e", "x", "e", "s">>
NameWidgets == <<"w", "i", "d", "g", "e", "t", "s">>

\* strings.HasPrefix.
HasPrefix(name, prefix) ==
    Len(prefix) <= Len(name) /\ SubSeq(name, 1, Len(prefix)) = prefix

\* hasTxnReferences as it would be testing for the prefix T instead of "T.".
hasTxnReferencesNoDot(name, txnsName) ==
    IF name = txnsName \o StashSuffix THEN TRUE
    ELSE IF name = txnsName \/ HasPrefix(name, txnsName) THEN FALSE
    ELSE IF name = NameStatusesHistory THEN FALSE
    ELSE IF HasPrefix(name, NameSystem \o Dot) THEN FALSE
    ELSE TRUE

\* hasTxnReferences (prune.go:425-442): the switch takes its first true case.
hasTxnReferences(name, txnsName) ==
    IF name = txnsName \o StashSuffix THEN TRUE
    ELSE IF name = txnsName \/ HasPrefix(name, txnsName \o Dot) THEN FALSE
    ELSE IF name = NameStatusesHistory THEN FALSE
    ELSE IF HasPrefix(name, NameSystem \o Dot) THEN FALSE
    ELSE TRUE

\* Bound of the txnCollections specification.
MaxNames == 2      \* names in an enumerated input list

\* The base names and collection names tried.
TxnsNames == {NameTxns, NameT, NameSystem}

CollectionNames ==
    {NameTxns, NameTxns \o StashSuffix, NameTxns \o PruneSuffix,
     NameTxns \o <<"x">>, NameTxns \o StashSuffix \o <<"x">>,
     NameT \o StashSuffix, NameT \o Dot,
     NameStatusesHistory, NameStatusesHistory \o <<"2">>,
     NameSystem, NameSystemIndexes, NameSystem \o StashSuffix,
     NameWidgets, <<>>}

\* The list of section 8 of the design.
ExampleNames ==
    <<NameTxns, NameTxns \o StashSuffix, NameTxns \o PruneSuffix,
      NameStatusesHistory, NameSystemIndexes, NameWidgets>>

NameLists ==
    {ExampleNames} \cup UNION {[1 .. n -> CollectionNames] : n \in 0 .. MaxNames}

\* No call of txnCollections.
NoFilter == [inNames |-> <<>>, txnsName |-> <<>>, i |-> 0, outNames |-> <<>>,
             returned |-> FALSE]

\* prune.go:445-449: one turn of the loop over inNames.
FilterName ==
    /\ ~tc.returned
    /\ tc.i <= Len(tc.inNames)
    /\ tc' = [tc EXCEPT
                !.outNames = IF hasTxnReferences(tc.inNames[tc.i], tc.txnsName)
                             THEN Append(@, tc.inNames[tc.i]) ELSE @,
                !.i = @ + 1]
    /\ UNCHANGED <<remVars, decVars, capVars, mayVars, engVars, timVars>>

\* prune.go:450: return outNames.
ReturnNames ==
    /\ ~tc.returned
    /\ tc.i > Len(tc.inNames)
    /\ tc' = [tc EXCEPT !.returned = TRUE]
    /\ UNCHANGED <<remVars, decVars, capVars, mayVars, engVars, timVars>>

NextCollections ==
    \/ FilterName
    \/ ReturnNames

\* The names the filter is to keep for base name T: T.stash, and whatever is
\* neither T, nor prefixed by "T.", nor statuseshistory, nor prefixed by
\* "system.".
Keeps(name, T) ==
    \/ name = T \o StashSuffix
    \/ /\ name # T
       /\ ~HasPrefix(name, T \o Dot)
       /\ name # NameStatusesHistory
       /\ ~HasPrefix(name, NameSystem \o Dot)

\* C14: txnCollections returns, in input order, exactly the names to keep;
\* for T = "txns" and the list of the example, [txns.stash, widgets].
C14_TxnCollectionsFilter ==
    tc.returned =>
        /\ LET Kept(name) == Keeps(name, tc.txnsName)
           IN  tc.outNames = SelectSeq(tc.inNames, Kept)
        /\ (tc.txnsName = NameTxns /\ tc.inNames = ExampleNames) =>
               tc.outNames = <<NameTxns \o StashSuffix, NameWidgets>>

\* C14 witness: the call on the example list has returned.
C14_Witness ==
    /\ tc.returned
    /\ tc.txnsName = NameTxns
    /\ tc.inNames = ExampleNames
    /\ Len(tc.outNames) = 2

-----------------------------------------------------------------------------
(* simpleTimer                                                             *)

\* Bounds of the simpleTimer specification.
MaxClock == 4      \* time.Now() runs over 0..MaxClock
MaxAsks == 4       \* calls of isAfter in one behaviour

\* The intervals a timer is made with (a time.Duration may be negative).
Intervals == {-1, 0, 1, 2}

\* time.Time.After as it would be with Time.Equal counted in.
AfterOrEqual(t, u) == t >= u

\* time.Time.After (prune.go:574): t is strictly later than u.
After(t, u) == t > u

\* newSimpleTimer (prune.go:560-565) at time now.
newSimpleTimer(interval, now) == [interval |-> interval, next |-> now + interval]

\* simpleTimer.isAfter (prune.go:572-579) at time now: the timer afterwards
\* and the answer.
isAfter(t, now) ==
    IF After(now, t.next)
    THEN [t |-> [t EXCEPT !.next = now + t.interval], answer |-> TRUE]
    ELSE [t |-> t, answer |-> FALSE]

\* No timer made yet.
NoTimer == [interval |-> 0, next |-> -1]

\* Nothing asked of the timer yet. at lists the time the timer was made and
\* then the times isAfter answered true; the other fields describe the last
\* call of isAfter.
NoAsks == [made |-> FALSE, at |-> <<>>, asks |-> 0,
           now |-> 0, deadline |-> 0, answer |-> FALSE]

\* A timer is made.
NewTimer(interval) ==
    /\ ~fired.made
    /\ timer' = newSimpleTimer(interval, clock)
    /\ fired' = [fired EXCEPT !.made = TRUE, !.at = <<clock>>]
    /\ UNCHANGED clock
    /\ UNCHANGED <<remVars, decVars, capVars, mayVars, engVars, colVars>>

\* Time passes.
Tick ==
    /\ clock < MaxClock
    /\ clock' = clock + 1
    /\ UNCHANGED <<timer, fired>>
    /\ UNCHANGED <<remVars, decVars, capVars, mayVars, engVars, colVars>>

\* One call of isAfter.
IsAfter ==
    /\ fired.made
    /\ fired.asks < MaxAsks
    /\ timer' = isAfter(timer, clock).t
    /\ fired' = [fired EXCEPT
                   !.at = IF isAfter(timer, clock).answer THEN Append(@, clock) ELSE @,
                   !.asks = @ + 1,
                   !.now = clock,
                   !.deadline = timer.next,
                   !.answer = isAfter(timer, clock).answer]
    /\ UNCHANGED clock
    /\ UNCHANGED <<remVars, decVars, capVars, mayVars, engVars, colVars>>

NextTimer ==
    \/ \E interval \in Intervals : NewTimer(interval)
    \/ Tick
    \/ IsAfter

\* C16: isAfter answers true exactly when the time is strictly later than the
\* deadline and then sets the deadline to now + interval; a false answer
\* leaves the deadline alone. The first true answer comes more than interval
\* after the timer was made, and any two true answers are more than interval
\* apart.
C16_TimerFiresPastDeadline ==
    /\ fired.asks > 0 =>
           /\ fired.answer <=> (fired.now > fired.deadline)
           /\ fired.answer => timer.next = fired.now + timer.interval
           /\ ~fired.answer => timer.next = fired.deadline
    /\ \A i \in 1 .. Len(fired.at) - 1 :
           fired.at[i + 1] - fired.at[i] > timer.interval

\* C16 witness: a timer of interval 1 has answered true twice, and false to
\* the last call.
C16_Witness ==
    /\ timer.interval = 1
    /\ Len(fired.at) = 3
    /\ fired.asks > 0
    /\ ~fired.answer

-----------------------------------------------------------------------------
(* maybePrune and the stats store: getPruneLastTxnsCount,                  *)
(* writePruneTxnsCount                                                     *)

\* The processes that run maybePrune against the same database.
Procs == {"p1", "p2"}

\* Bounds of the maybePrune specification.
MaxRuns == 2       \* runs of maybePrune started, over all processes
MaxDocs == 1       \* documents the txns collection grows to

\* How the database answers a count, an insert or an upsert.
WriteAnswers == {"nil", "ErrOther"}

\* A failed insert may or may not have stored its document.
InsertAnswers == {"nil", "ErrOther", "ErrOtherStored"}

\* The caller's PruneOptions tried: every field unset but a growth threshold
\* of one transaction, then the same with a sleep time and a batch size over
\* the ceilings.
UnsetOptions ==
    [PruneFactor |-> [num |-> 0, den |-> 1], MinNewTransactions |-> 1,
     MaxNewTransactions |-> 0, MaxBatches |-> 0,
     BatchTransactionSleepTime |-> -1, SmallBatchTransactionCount |-> 0,
     MaxTime |-> 1, MaxBatchTransactions |-> 0]

MaybeOptionInputs ==
    {UnsetOptions,
     [UnsetOptions EXCEPT !.BatchTransactionSleepTime = maxBatchSleepTime + 1,
                          !.SmallBatchTransactionCount = pruneMaxTxnBatchSize + 1]}

\* The CleanAndPruneArgs maybePrune builds (prune.go:165-172); Multithreaded
\* is left at its zero value.
MaybePruneArgs(o, txnsCount) ==
    [Txns |-> "txns", TxnsCount |-> txnsCount, MaxTime |-> o.MaxTime,
     MaxTransactionsToProcess |-> o.MaxBatchTransactions,
     Multithreaded |-> FALSE,
     TxnBatchSize |-> o.SmallBatchTransactionCount,
     TxnBatchSleepTime |-> o.BatchTransactionSleepTime]

\* The pruneStats document writePruneTxnsCount inserts, as it would be with
\* the two transaction counts taken in the other order.
pruneStatsSwapped(id, txnsBefore, txnsAfter, stashBefore, stashAfter) ==
    [Id |-> id, TxnsBefore |-> txnsAfter, TxnsAfter |-> txnsBefore,
     StashDocsBefore |-> stashBefore, StashDocsAfter |-> stashAfter]

\* The pruneStats document writePruneTxnsCount inserts (prune.go:395-403,
\* 79-87); the two times are left out.
pruneStats(id, txnsBefore, txnsAfter, stashBefore, stashAfter) ==
    [Id |-> id, TxnsBefore |-> txnsBefore, TxnsAfter |-> txnsAfter,
     StashDocsBefore |-> stashBefore, StashDocsAfter |-> stashAfter]

NoStats == pruneStats(0, 0, 0, 0, 0)

\* The "last" pointer document is absent.
NoPointer == 0

\* FindId("last").One (prune.go:367): the error and the id the pointer names.
FindLastPointer(ptr) ==
    IF ptr = NoPointer THEN [err |-> "ErrNotFound", id |-> 0]
    ELSE [err |-> "nil", id |-> ptr]

\* FindId(ptrDoc["id"]).One (prune.go:376): the error and the snapshot.
FindStats(docs, id) ==
    IF \E d \in docs : d.Id = id
    THEN [err |-> "nil", doc |-> CHOOSE d \in docs : d.Id = id]
    ELSE [err |-> "ErrNotFound", doc |-> NoStats]

\* getPruneLastTxnsCount after the pointer lookup (prune.go:368-372): whether
\* it returns there, and what.
onPointerLookup(err) ==
    IF err = "ErrNotFound" THEN [returns |-> TRUE, count |-> -1, err |-> nilErr]
    ELSE IF err # "nil"
    THEN [returns |-> TRUE, count |-> -1,
          err |-> NewErr("failed to load pruning stats pointer")]
    ELSE [returns |-> FALSE, count |-> 0, err |-> nilErr]

\* prune.go:377-385 as it would be returning the 0 its comment speaks of.
onStatsLookupZero(err, doc) ==
    IF err = "ErrNotFound" THEN [count |-> 0, err |-> nilErr]
    ELSE IF err # "nil" THEN [count |-> -1, err |-> NewErr("failed to load pruning stats")]
    ELSE [count |-> doc.TxnsAfter, err |-> nilErr]

\* getPruneLastTxnsCount after the snapshot lookup (prune.go:377-385).
onStatsLookup(err, doc) ==
    IF err = "ErrNotFound" THEN [count |-> -1, err |-> nilErr]
    ELSE IF err # "nil" THEN [count |-> -1, err |-> NewErr("failed to load pruning stats")]
    ELSE [count |-> doc.TxnsAfter, err |-> nilErr]

\* prune.go:404-406 as it would be with the Insert's error left unchecked.
afterInsertUnchecked(err) == "upsert"

\* writePruneTxnsCount after the Insert (prune.go:404-406): it returns the
\* error, or goes on to the pointer.
afterInsert(err) == IF err # "nil" THEN "return" ELSE "upsert"

\* A process not running maybePrune. ptrRes, ptrDoc and snapRes are what the
\* two lookups of getPruneLastTxnsCount gave, kept until the decision is
\* taken; decided, swept, removed, capReturned, countedAfter, inserted and
\* moved record what the run has done so far.
IdleRun ==
    [pc |-> "idle", runs |-> 0, pruneOpts |-> UnsetOptions,
     txnsCount |-> 0, ptrRes |-> "none", ptrDoc |-> 0, snapRes |-> "none",
     lastTxnsCount |-> 0, decided |-> FALSE, required |-> FALSE,
     stashDocsBefore |-> 0, capReturned |-> "none", swept |-> FALSE, removed |-> FALSE,
     txnsCountAfter |-> 0, stashDocsAfter |-> 0, countedAfter |-> 0,
     id |-> 0, inserted |-> 0, moved |-> FALSE, err |-> nilErr]

RunsStarted == mp["p1"].runs + mp["p2"].runs

\* maybePrune returns err.
Returns(r, err) == [r EXCEPT !.pc = "returned", !.err = err]

\* prune.go:128-134: a run starts and resolves its copy of the options.
StartRun(p, opts) ==
    /\ mp[p].pc = "idle"
    /\ RunsStarted < MaxRuns
    /\ mp' = [mp EXCEPT ![p] = [IdleRun EXCEPT !.pc = "count", !.runs = mp[p].runs + 1,
                                               !.pruneOpts = validatePruneOptions(opts)]]
    /\ UNCHANGED <<statsDocs, lastPtr, txnsDb, stashDb, nextId, external>>
    /\ UNCHANGED <<remVars, decVars, capVars, engVars, timVars, colVars>>

\* prune.go:136-139: txns.Count().
CountTxns(p, ans) ==
    /\ mp[p].pc = "count"
    /\ mp' = [mp EXCEPT ![p] =
                IF ans # "nil"
                THEN Returns(@, NewErr("failed to retrieve starting txns count"))
                ELSE [@ EXCEPT !.txnsCount = txnsDb, !.pc = "pointer"]]
    /\ UNCHANGED <<statsDocs, lastPtr, txnsDb, stashDb, nextId, external>>
    /\ UNCHANGED <<remVars, decVars, capVars, engVars, timVars, colVars>>

\* prune.go:140-143 with 367-372: the lookup of the pointer document; a
\* failing getPruneLastTxnsCount makes maybePrune return.
FindPointer(p, res) ==
    /\ mp[p].pc = "pointer"
    /\ LET out == onPointerLookup(res.err)
       IN  mp' = [mp EXCEPT ![p] =
                    IF out.returns /\ out.err # nilErr
                    THEN Returns([@ EXCEPT !.ptrRes = res.err],
                                 NewErr("failed to retrieve pruning stats"))
                    ELSE IF out.returns
                    THEN [@ EXCEPT !.ptrRes = res.err, !.lastTxnsCount = out.count,
                                   !.pc = "decide"]
                    ELSE [@ EXCEPT !.ptrRes = res.err, !.ptrDoc = res.id,
                                   !.pc = "stats"]]
    /\ UNCHANGED <<statsDocs, lastPtr, txnsDb, stashDb, nextId, external>>
    /\ UNCHANGED <<remVars, decVars, capVars, engVars, timVars, colVars>>

\* prune.go:140-143 with 375-385: the lookup of the snapshot the pointer names.
FindSnapshot(p, res) ==
    /\ mp[p].pc = "stats"
    /\ LET out == onStatsLookup(res.err, res.doc)
       IN  mp' = [mp EXCEPT ![p] =
                    IF out.err # nilErr
                    THEN Returns([@ EXCEPT !.snapRes = res.err],
                                 NewErr("failed to retrieve pruning stats"))
                    ELSE [@ EXCEPT !.snapRes = res.err, !.lastTxnsCount = out.count,
                                   !.pc = "decide"]]
    /\ UNCHANGED <<statsDocs, lastPtr, txnsDb, stashDb, nextId, external>>
    /\ UNCHANGED <<remVars, decVars, capVars, engVars, timVars, colVars>>

\* prune.go:145-154: the decision; a run that is not to prune returns nil.
DecidePrune(p) ==
    /\ mp[p].pc = "decide"
    /\ LET d == shouldPrune(mp[p].lastTxnsCount, mp[p].txnsCount, mp[p].pruneOpts)
       IN  mp' = [mp EXCEPT ![p] =
                    IF ~d.required
                    THEN Returns([@ EXCEPT !.decided = TRUE, !.required = FALSE,
                                           !.ptrRes = "none", !.ptrDoc = 0,
                                           !.snapRes = "none"], nilErr)
                    ELSE [@ EXCEPT !.decided = TRUE, !.required = TRUE,
                                   !.ptrRes = "none", !.ptrDoc = 0, !.snapRes = "none",
                                   !.pc = "stashBefore"]]
    /\ UNCHANGED <<statsDocs, lastPtr, txnsDb, stashDb, nextId, external>>
    /\ UNCHANGED <<remVars, decVars, capVars, engVars, timVars, colVars>>

\* prune.go:156-159: txnsStash.Count().
CountStashBefore(p, ans) ==
    /\ mp[p].pc = "stashBefore"
    /\ mp' = [mp EXCEPT ![p] =
                IF ans # "nil"
                THEN Returns(@, NewErr("failed to retrieve starting stash count"))
                ELSE [@ EXCEPT !.stashDocsBefore = stashDb, !.pc = "call"]]
    /\ UNCHANGED <<statsDocs, lastPtr, txnsDb, stashDb, nextId, external>>
    /\ UNCHANGED <<remVars, decVars, capVars, engVars, timVars, colVars>>

\* prune.go:165-175 with 308-310: CleanAndPrune is called; arguments that do
\* not pass validate make it, and maybePrune, return the error.
CallCleanAndPrune(p) ==
    /\ mp[p].pc = "call"
    /\ LET v == validate(MaybePruneArgs(mp[p].pruneOpts, mp[p].txnsCount))
       IN  mp' = [mp EXCEPT ![p] =
                    IF v.err # nilErr
                    THEN Returns([@ EXCEPT !.capReturned = "err"], Trace(v.err))
                    ELSE [@ EXCEPT !.swept = TRUE, !.pc = "sweeping"]]
    /\ UNCHANGED <<statsDocs, lastPtr, txnsDb, stashDb, nextId, external>>
    /\ UNCHANGED <<remVars, decVars, capVars, engVars, timVars, colVars>>

\* The sweep of the run removes a transaction record and its stash document.
SweepRemoveTxn(p) ==
    /\ mp[p].pc = "sweeping"
    /\ txnsDb > 0
    /\ txnsDb' = txnsDb - 1
    /\ stashDb' = stashDb - 1
    /\ mp' = [mp EXCEPT ![p].removed = TRUE]
    /\ UNCHANGED <<statsDocs, lastPtr, nextId, external>>
    /\ UNCHANGED <<remVars, decVars, capVars, engVars, timVars, colVars>>

\* prune.go:173-175: CleanAndPrune returns, with the sweep's error or none.
CleanAndPruneReturns(p, failed) ==
    /\ mp[p].pc = "sweeping"
    /\ mp' = [mp EXCEPT ![p] =
                IF failed
                THEN Returns([@ EXCEPT !.capReturned = "err"],
                             Trace(Trace(Trace(SweepErr("fwd")))))
                ELSE [@ EXCEPT !.capReturned = "ok", !.pc = "countAfter"]]
    /\ UNCHANGED <<statsDocs, lastPtr, txnsDb, stashDb, nextId, external>>
    /\ UNCHANGED <<remVars, decVars, capVars, engVars, timVars, colVars>>

\* prune.go:176-179: txns.Count() after the sweeps.
CountTxnsAfter(p, ans) ==
    /\ mp[p].pc = "countAfter"
    /\ mp' = [mp EXCEPT ![p] =
                IF ans # "nil"
                THEN Returns(@, NewErr("failed to retrieve final txns count"))
                ELSE [@ EXCEPT !.txnsCountAfter = txnsDb, !.countedAfter = 1,
                               !.pc = "stashAfter"]]
    /\ UNCHANGED <<statsDocs, lastPtr, txnsDb, stashDb, nextId, external>>
    /\ UNCHANGED <<remVars, decVars, capVars, engVars, timVars, colVars>>

\* prune.go:180-183: txnsStash.Count() after the sweeps.
CountStashAfter(p, ans) ==
    /\ mp[p].pc = "stashAfter"
    /\ mp' = [mp EXCEPT ![p] =
                IF ans # "nil"
                THEN Returns(@, NewErr("failed to retrieve final stash count"))
                ELSE [@ EXCEPT !.stashDocsAfter = stashDb, !.countedAfter = 2,
                               !.pc = "insert"]]
    /\ UNCHANGED <<statsDocs, lastPtr, txnsDb, stashDb, nextId, external>>
    /\ UNCHANGED <<remVars, decVars, capVars, engVars, timVars, colVars>>

\* prune.go:188 with 394-406: writePruneTxnsCount takes a new id and inserts
\* the snapshot.
InsertStats(p, ans) ==
    /\ mp[p].pc = "insert"
    /\ nextId' = nextId + 1
    /\ statsDocs' = IF ans \in {"nil", "ErrOtherStored"}
                    THEN statsDocs \cup
                           {pruneStats(nextId, mp[p].txnsCount, mp[p].txnsCountAfter,
                                       mp[p].stashDocsBefore, mp[p].stashDocsAfter)}
                    ELSE statsDocs
    /\ LET err == IF ans = "nil" THEN "nil" ELSE "ErrOther"
           r   == [mp[p] EXCEPT !.id = nextId,
                                !.inserted = IF ans = "ErrOther" THEN 0 ELSE nextId]
       IN  mp' = [mp EXCEPT ![p] =
                    IF afterInsert(err) = "return"
                    THEN Returns(r, NewErr("failed to write prune stats"))
                    ELSE [r EXCEPT !.pc = "upsert"]]
    /\ UNCHANGED <<lastPtr, txnsDb, stashDb, external>>
    /\ UNCHANGED <<remVars, decVars, capVars, engVars, timVars, colVars>>

\* prune.go:408-413: the pointer is set to the id of the snapshot.
UpsertPointer(p, ans) ==
    /\ mp[p].pc = "upsert"
    /\ lastPtr' = IF ans = "nil" THEN mp[p].id ELSE lastPtr
    /\ mp' = [mp EXCEPT ![p] =
                IF ans # "nil"
                THEN Returns(@, NewErr("failed to write prune stats pointer"))
                ELSE Returns([@ EXCEPT !.moved = TRUE], nilErr)]
    /\ UNCHANGED <<statsDocs, txnsDb, stashDb, nextId, external>>
    /\ UNCHANGED <<remVars, decVars, capVars, engVars, timVars, colVars>>

\* The caller has the result; the process may run maybePrune again.
FinishRun(p) ==
    /\ mp[p].pc = "returned"
    /\ mp' = [mp EXCEPT ![p] = [IdleRun EXCEPT !.runs = mp[p].runs]]
    /\ UNCHANGED <<statsDocs, lastPtr, txnsDb, stashDb, nextId, external>>
    /\ UNCHANGED <<remVars, decVars, capVars, engVars, timVars, colVars>>

\* The process dies in the middle of a run.
Crash(p) ==
    /\ mp[p].pc \notin {"idle", "returned"}
    /\ mp' = [mp EXCEPT ![p] = [IdleRun EXCEPT !.runs = mp[p].runs]]
    /\ UNCHANGED <<statsDocs, lastPtr, txnsDb, stashDb, nextId, external>>
    /\ UNCHANGED <<remVars, decVars, capVars, engVars, timVars, colVars>>

\* The live transaction system adds a transaction record and a stash
\* document for it.
LiveAdd ==
    /\ txnsDb < MaxDocs
    /\ txnsDb' = txnsDb + 1
    /\ stashDb' = stashDb + 1
    /\ UNCHANGED <<mp, statsDocs, lastPtr, nextId, external>>
    /\ UNCHANGED <<remVars, decVars, capVars, engVars, timVars, colVars>>

\* Something other than maybePrune deletes a snapshot.
ExternalDelete ==
    /\ \E d \in statsDocs : statsDocs' = statsDocs \ {d}
    /\ external' = TRUE
    /\ UNCHANGED <<mp, lastPtr, txnsDb, stashDb, nextId>>
    /\ UNCHANGED <<remVars, decVars, capVars, engVars, timVars, colVars>>

\* One process runs maybePrune time after time, while the live system adds
\* transactions and, in some behaviours, something else deletes snapshots.
RunStep(p) ==
    \/ \E opts \in MaybeOptionInputs : StartRun(p, opts)
    \/ \E ans \in WriteAnswers : CountTxns(p, ans)
    \/ FindPointer(p, FindLastPointer(lastPtr))
    \/ FindPointer(p, [err |-> "ErrOther", id |-> 0])
    \/ FindSnapshot(p, FindStats(statsDocs, mp[p].ptrDoc))
    \/ FindSnapshot(p, [err |-> "ErrOther", doc |-> NoStats])
    \/ DecidePrune(p)
    \/ \E ans \in WriteAnswers : CountStashBefore(p, ans)
    \/ CallCleanAndPrune(p)
    \/ SweepRemoveTxn(p)
    \/ \E failed \in BOOLEAN : CleanAndPruneReturns(p, failed)
    \/ \E ans \in WriteAnswers : CountTxnsAfter(p, ans)
    \/ \E ans \in WriteAnswers : CountStashAfter(p, ans)
    \/ \E ans \in InsertAnswers : InsertStats(p, ans)
    \/ \E ans \in WriteAnswers : UpsertPointer(p, ans)
    \/ FinishRun(p)
    \/ Crash(p)

NextMaybe ==
    \/ RunStep("p1")
    \/ LiveAdd
    \/ ExternalDelete

\* The two processes run maybePrune concurrently; nothing else writes to the
\* database.
NextMaybePair ==
    \E p \in Procs : RunStep(p)

\* ---- properties of maybePrune and the stats store

\* The error maybePrune returns when getPruneLastTxnsCount returned one.
StatsLookupFailed == NewErr("failed to retrieve pruning stats")

RunFailures ==
    {NewErr("failed to retrieve starting txns count"),
     StatsLookupFailed,
     NewErr("failed to retrieve starting stash count"),
     NewErr("failed to retrieve final txns count"),
     NewErr("failed to retrieve final stash count"),
     SweepErr("fwd")} \cup ConfigErrors

\* C15: a run stores a snapshot, or moves the pointer, only after deciding to
\* prune, CleanAndPrune returning no error and both final counts succeeding;
\* a run that decided to skip, or in which a count or CleanAndPrune failed,
\* has written neither, and a run that decided to skip has returned nil with
\* no sweep started and nothing deleted. The snapshot stored has the count the
\* decision used as TxnsBefore and the count read after the sweeps as
\* TxnsAfter.
C15_SnapshotOnlyAfterPrune ==
    \A p \in Procs :
        /\ (mp[p].inserted # 0 \/ mp[p].moved) =>
              /\ mp[p].decided /\ mp[p].required
              /\ mp[p].capReturned = "ok"
              /\ mp[p].countedAfter = 2
        /\ (mp[p].decided /\ ~mp[p].required) =>
              /\ mp[p].pc = "returned" /\ mp[p].err = nilErr
              /\ ~mp[p].swept /\ ~mp[p].removed
              /\ mp[p].inserted = 0 /\ ~mp[p].moved
        /\ (mp[p].pc = "returned" /\ Cause(mp[p].err) \in RunFailures) =>
              mp[p].inserted = 0 /\ ~mp[p].moved
        /\ \A d \in statsDocs :
              d.Id = mp[p].inserted =>
                  /\ d.TxnsBefore = mp[p].txnsCount
                  /\ d.TxnsAfter = mp[p].txnsCountAfter
                  /\ d.StashDocsBefore = mp[p].stashDocsBefore
                  /\ d.StashDocsAfter = mp[p].stashDocsAfter

\* C15 witness: a run that removed documents returned nil with its snapshot
\* stored and the pointer on it, while the other process's run decided to
\* skip.
C15_Witness ==
    \E p, q \in Procs :
        /\ mp[p].pc = "returned" /\ mp[p].err = nilErr
        /\ mp[p].moved /\ mp[p].removed
        /\ lastPtr = mp[p].inserted
        /\ \E d \in statsDocs : d.Id = mp[p].inserted /\ d.TxnsBefore > d.TxnsAfter
        /\ mp[q].decided /\ ~mp[q].required

\* C18: while nothing else deletes snapshots, the pointer document, when
\* present, names a snapshot that is in the stats collection.
C18_PointerNamesSnapshot ==
    ~external =>
        (lastPtr # NoPointer => \E d \in statsDocs : d.Id = lastPtr)

\* C18 witness: nothing else deletes snapshots, a newer snapshot than the one
\* the pointer names is stored (its run ended before moving the pointer), and
\* no run is under way.
C18_Witness ==
    /\ ~external
    /\ lastPtr # NoPointer
    /\ \E d \in statsDocs : d.Id > lastPtr
    /\ \A p \in Procs : mp[p].pc = "idle"

\* C20: the options a run has resolved give CleanAndPrune arguments that pass
\* validate, the sleep time within [0, maxBatchSleepTime] and the batch size
\* within [pruneMinTxnBatchSize, pruneMaxTxnBatchSize]; no run returns a
\* configuration error.
C20_ResolvedOptionsPassValidate ==
    \A p \in Procs :
        mp[p].pc # "idle" =>
            /\ validate(MaybePruneArgs(mp[p].pruneOpts, mp[p].txnsCount)).err = nilErr
            /\ mp[p].pruneOpts.BatchTransactionSleepTime >= 0
            /\ mp[p].pruneOpts.BatchTransactionSleepTime <= maxBatchSleepTime
            /\ mp[p].pruneOpts.SmallBatchTransactionCount >= pruneMinTxnBatchSize
            /\ mp[p].pruneOpts.SmallBatchTransactionCount <= pruneMaxTxnBatchSize
            /\ Cause(mp[p].err) \notin ConfigErrors

-----------------------------------------------------------------------------
(* The engine's sweeps among live transactions                             *)

\* Transaction ids are 1..MaxTxns, in the order the transactions are created
\* (an object id starts with its creation time), and a transaction's creation
\* time is its id.
TxnIds == 1 .. MaxTxns

Created(t) == t

\* The documents transactions operate on, and the sets of documents a
\* transaction's operations name.
Docs == {"d1", "d2"}

OpSets == {{"d1"}, {"d1", "d2"}}

\* Transaction states (prune.go:18-20 name the two terminal ones).
Terminal == {"aborted", "applied"}

NonTerminal == {"preparing", "prepared"}

\* A token is the transaction's id followed by a nonce.
Token(t) == [id |-> t, nonce |-> 1]

\* txnTokenToId (prune.go:453-457).
txnTokenToId(token) == token.id

\* No transaction with this id yet.
NoTxn == [state |-> "none", ops |-> {}, stored |-> FALSE]

\* A sweep not started. seen holds the transactions it has evaluated, txn the
\* one in hand and todo the documents of it still to clean.
IdleSweep ==
    [pc |-> "idle", pargs |-> IncrementalPruneArgs(NoArgs, FALSE), txn |-> 0,
     todo |-> {}, seen |-> {}]

\* The arguments CleanAndPrune runs the sweeps with: the horizon leaves the
\* newest transaction out.
EngineArgInputs ==
    [Txns : {"txns"},
     MaxTime : {MaxTxns - 1},
     MaxTransactionsToProcess : {0},
     Multithreaded : BOOLEAN,
     TxnBatchSize : {pruneTxnBatchSize},
     TxnBatchSleepTime : {0}]

\* Whether some document's queue holds a token of transaction t.
Referenced(t) ==
    \E d \in Docs : \E i \in 1 .. Len(docQueue[d]) : txnTokenToId(docQueue[d][i]) = t

\* The queue without the tokens of transaction t, the rest in order.
WithoutTxn(queue, t) ==
    LET Other(token) == txnTokenToId(token) # t
    IN  SelectSeq(queue, Other)

\* ---- the live transaction system

\* A transaction is created, with the documents it operates on.
LiveCreate(t, ops) ==
    /\ txnRecs[t].state = "none"
    /\ IF t = 1 THEN TRUE ELSE txnRecs[t - 1].state # "none"
    /\ txnRecs' = [txnRecs EXCEPT ![t] = [state |-> "preparing", ops |-> ops,
                                          stored |-> TRUE]]
    /\ UNCHANGED <<docQueue, sw, deletions>>
    /\ UNCHANGED <<remVars, decVars, capVars, mayVars, timVars, colVars>>

\* A transaction being prepared appends its token to the queue of a document
\* it operates on.
LiveAppend(t, d) ==
    /\ txnRecs[t].state = "preparing"
    /\ d \in txnRecs[t].ops
    /\ \A i \in 1 .. Len(docQueue[d]) : docQueue[d][i] # Token(t)
    /\ docQueue' = [docQueue EXCEPT ![d] = Append(@, Token(t))]
    /\ UNCHANGED <<txnRecs, sw, deletions>>
    /\ UNCHANGED <<remVars, decVars, capVars, mayVars, timVars, colVars>>

\* A transaction moves on: prepared once its token is on every document,
\* then applied; or aborted while it is being prepared.
LiveAdvance(t, to) ==
    /\ \/ /\ txnRecs[t].state = "preparing"
          /\ to = "prepared"
          /\ \A d \in txnRecs[t].ops :
                \E i \in 1 .. Len(docQueue[d]) : docQueue[d][i] = Token(t)
       \/ txnRecs[t].state = "preparing" /\ to = "aborted"
       \/ txnRecs[t].state = "prepared" /\ to = "applied"
    /\ txnRecs' = [txnRecs EXCEPT ![t].state = to]
    /\ UNCHANGED <<docQueue, sw, deletions>>
    /\ UNCHANGED <<remVars, decVars, capVars, mayVars, timVars, colVars>>

\* ---- a sweep of the engine

\* prune.go:318-326: the closure builds the arguments and calls Prune; the
\* reverse sweep runs only when Multithreaded is set.
SweepStart(s) ==
    /\ sw[s].pc = "idle"
    /\ s = "rev" => args.Multithreaded
    /\ sw' = [sw EXCEPT ![s] = [IdleSweep EXCEPT
                                   !.pc = "read",
                                   !.pargs = IncrementalPruneArgs(args, s = "rev")]]
    /\ UNCHANGED <<txnRecs, docQueue, deletions>>
    /\ UNCHANGED <<remVars, decVars, capVars, mayVars, timVars, colVars>>

\* The resolved transactions a sweep may still take up: stored, in a terminal
\* state, created at or before the horizon, not evaluated by it yet.
Eligible(s) ==
    {t \in TxnIds : /\ txnRecs[t].stored
                    /\ txnRecs[t].state \in Terminal
                    /\ Created(t) <= sw[s].pargs.MaxTime
                    /\ t \notin sw[s].seen}

\* The sweep reads its next resolved transaction, the oldest or in reverse
\* order the newest, and the documents its operations name; with none left it
\* ends.
SweepRead(s) ==
    /\ sw[s].pc = "read"
    /\ sw' = [sw EXCEPT ![s] =
                IF Eligible(s) = {} THEN [@ EXCEPT !.pc = "done"]
                ELSE LET t == IF sw[s].pargs.ReverseOrder
                              THEN CHOOSE x \in Eligible(s) : \A y \in Eligible(s) : y <= x
                              ELSE CHOOSE x \in Eligible(s) : \A y \in Eligible(s) : x <= y
                     IN  [@ EXCEPT !.pc = "clean", !.txn = t, !.todo = txnRecs[t].ops]]
    /\ UNCHANGED <<txnRecs, docQueue, deletions>>
    /\ UNCHANGED <<remVars, decVars, capVars, mayVars, timVars, colVars>>

\* The sweep removes the tokens of the transaction in hand from one
\* document's queue, in one update.
SweepClean(s, d) ==
    /\ sw[s].pc = "clean"
    /\ d \in sw[s].todo
    /\ docQueue' = [docQueue EXCEPT ![d] = WithoutTxn(@, sw[s].txn)]
    /\ sw' = [sw EXCEPT ![s].todo = @ \ {d}]
    /\ UNCHANGED <<txnRecs, deletions>>
    /\ UNCHANGED <<remVars, decVars, capVars, mayVars, timVars, colVars>>

\* With every document cleaned the sweep deletes the transaction record; a
\* record the other sweep deleted already is "not found", and no error.
SweepDelete(s) ==
    /\ sw[s].pc = "clean"
    /\ sw[s].todo = {}
    /\ LET t == sw[s].txn
       IN  /\ txnRecs' = [txnRecs EXCEPT ![t].stored = FALSE]
           /\ deletions' = IF txnRecs[t].stored
                           THEN deletions \cup
                                  {[txn |-> t, state |-> txnRecs[t].state,
                                    created |-> Created(t), referenced |-> Referenced(t)]}
                           ELSE deletions
           /\ sw' = [sw EXCEPT ![s].seen = @ \cup {t}, ![s].pc = "read", ![s].txn = 0]
    /\ UNCHANGED docQueue
    /\ UNCHANGED <<remVars, decVars, capVars, mayVars, timVars, colVars>>

NextEngine ==
    \/ \E t \in TxnIds, ops \in OpSets : LiveCreate(t, ops)
    \/ \E t \in TxnIds, d \in Docs : LiveAppend(t, d)
    \/ \E t \in TxnIds, to \in {"prepared", "aborted", "applied"} : LiveAdvance(t, to)
    \/ \E s \in Sweeps : SweepStart(s)
    \/ \E s \in Sweeps : SweepRead(s)
    \/ \E s \in Sweeps, d \in Docs : SweepClean(s, d)
    \/ \E s \in Sweeps : SweepDelete(s)

\* C13: a transaction record is deleted only in a terminal state, created at
\* or before MaxTime, and with its token in no document's queue; the record of
\* a transaction in a non-terminal state is never deleted.
C13_DeletedOnlyWhenResolved ==
    /\ \A r \in deletions :
          /\ r.state \in Terminal
          /\ r.created <= args.MaxTime
          /\ ~r.referenced
    /\ \A t \in TxnIds : txnRecs[t].state \in NonTerminal => txnRecs[t].stored

\* C13 witness: two sweeps ran, the first transaction was deleted, and a
\* later one past the horizon, resolved with its token still queued, was not.
C13_Witness ==
    /\ args.Multithreaded
    /\ sw["fwd"].pc = "done"
    /\ sw["rev"].pc = "done"
    /\ \E r \in deletions : r.txn = 1
    /\ txnRecs[MaxTxns].state \in Terminal
    /\ txnRecs[MaxTxns].stored
    /\ Referenced(MaxTxns)

-----------------------------------------------------------------------------
(* Specifications                                                          *)

\* Each specification starts the other groups of variables at rest and never
\* moves them.

\* CleanAndPrune is called with args; nothing has run yet.
Init ==
    /\ remover = newBatchRemover
    /\ lastCall = NoCall
    /\ dbDeleted = 0
    /\ nCalls = 0
    /\ oldCount = -1
    /\ newCount = 0
    /\ pruneOptions = NoOptions
    /\ decision = NoDecision
    /\ dpc = "start"
    /\ args \in ArgInputs
    /\ mpc = "validate"
    /\ result = NoResult
    /\ reporter = NoReporter
    /\ stopClosed = FALSE
    /\ wg = 0
    /\ mu = "free"
    /\ pstats = ZeroPrunerStats
    /\ anyErr = nilErr
    /\ spc = [s \in Sweeps |-> "idle"]
    /\ pruner = [s \in Sweeps |-> NoPruner]
    /\ loaded = [s \in Sweeps |-> ZeroPrunerStats]
    /\ launches = [s \in Sweeps |-> 0]
    /\ recorded = <<>>
    /\ txnsColl = 1 .. MaxTxns
    /\ dbOps = 0
    /\ mp = [p \in Procs |-> IdleRun]
    /\ statsDocs = {}
    /\ lastPtr = NoPointer
    /\ txnsDb = 1
    /\ stashDb = 1
    /\ nextId = 1
    /\ external = FALSE
    /\ txnRecs = [t \in TxnIds |-> NoTxn]
    /\ docQueue = [d \in Docs |-> <<>>]
    /\ sw = [s \in Sweeps |-> IdleSweep]
    /\ deletions = {}
    /\ timer = NoTimer
    /\ clock = 0
    /\ fired = NoAsks
    /\ tc = NoFilter

\* A Remover of either strategy, just made.
InitRemoverSpec ==
    /\ remover \in {newBatchRemover, newBulkRemover}
    /\ lastCall = NoCall
    /\ dbDeleted = 0
    /\ nCalls = 0
    /\ oldCount = -1
    /\ newCount = 0
    /\ pruneOptions = NoOptions
    /\ decision = NoDecision
    /\ dpc = "start"
    /\ args = NoArgs
    /\ mpc = "validate"
    /\ result = NoResult
    /\ reporter = NoReporter
    /\ stopClosed = FALSE
    /\ wg = 0
    /\ mu = "free"
    /\ pstats = ZeroPrunerStats
    /\ anyErr = nilErr
    /\ spc = [s \in Sweeps |-> "idle"]
    /\ pruner = [s \in Sweeps |-> NoPruner]
    /\ loaded = [s \in Sweeps |-> ZeroPrunerStats]
    /\ launches = [s \in Sweeps |-> 0]
    /\ recorded = <<>>
    /\ txnsColl = 1 .. MaxTxns
    /\ dbOps = 0
    /\ mp = [p \in Procs |-> IdleRun]
    /\ statsDocs = {}
    /\ lastPtr = NoPointer
    /\ txnsDb = 1
    /\ stashDb = 1
    /\ nextId = 1
    /\ external = FALSE
    /\ txnRecs = [t \in TxnIds |-> NoTxn]
    /\ docQueue = [d \in Docs |-> <<>>]
    /\ sw = [s \in Sweeps |-> IdleSweep]
    /\ deletions = {}
    /\ timer = NoTimer
    /\ clock = 0
    /\ fired = NoAsks
    /\ tc = NoFilter

\* The decision is taken on enumerated counts and options.
InitDecide ==
    /\ remover = newBatchRemover
    /\ lastCall = NoCall
    /\ dbDeleted = 0
    /\ nCalls = 0
    /\ oldCount \in OldCounts
    /\ newCount \in NewCounts
    /\ pruneOptions \in OptionInputs
    /\ decision = NoDecision
    /\ dpc = "start"
    /\ args = NoArgs
    /\ mpc = "validate"
    /\ result = NoResult
    /\ reporter = NoReporter
    /\ stopClosed = FALSE
    /\ wg = 0
    /\ mu = "free"
    /\ pstats = ZeroPrunerStats
    /\ anyErr = nilErr
    /\ spc = [s \in Sweeps |-> "idle"]
    /\ pruner = [s \in Sweeps |-> NoPruner]
    /\ loaded = [s \in Sweeps |-> ZeroPrunerStats]
    /\ launches = [s \in Sweeps |-> 0]
    /\ recorded = <<>>
    /\ txnsColl = 1 .. MaxTxns
    /\ dbOps = 0
    /\ mp = [p \in Procs |-> IdleRun]
    /\ statsDocs = {}
    /\ lastPtr = NoPointer
    /\ txnsDb = 1
    /\ stashDb = 1
    /\ nextId = 1
    /\ external = FALSE
    /\ txnRecs = [t \in TxnIds |-> NoTxn]
    /\ docQueue = [d \in Docs |-> <<>>]
    /\ sw = [s \in Sweeps |-> IdleSweep]
    /\ deletions = {}
    /\ timer = NoTimer
    /\ clock = 0
    /\ fired = NoAsks
    /\ tc = NoFilter

\* A process about to run maybePrune on a database with no snapshot yet.
InitMaybe ==
    /\ remover = newBatchRemover
    /\ lastCall = NoCall
    /\ dbDeleted = 0
    /\ nCalls = 0
    /\ oldCount = -1
    /\ newCount = 0
    /\ pruneOptions = NoOptions
    /\ decision = NoDecision
    /\ dpc = "start"
    /\ args = NoArgs
    /\ mpc = "validate"
    /\ result = NoResult
    /\ reporter = NoReporter
    /\ stopClosed = FALSE
    /\ wg = 0
    /\ mu = "free"
    /\ pstats = ZeroPrunerStats
    /\ anyErr = nilErr
    /\ spc = [s \in Sweeps |-> "idle"]
    /\ pruner = [s \in Sweeps |-> NoPruner]
    /\ loaded = [s \in Sweeps |-> ZeroPrunerStats]
    /\ launches = [s \in Sweeps |-> 0]
    /\ recorded = <<>>
    /\ txnsColl = 1 .. MaxTxns
    /\ dbOps = 0
    /\ mp = [p \in Procs |-> IdleRun]
    /\ statsDocs = {}
    /\ lastPtr = NoPointer
    /\ txnsDb = 1
    /\ stashDb = 1
    /\ nextId = 1
    /\ external = FALSE
    /\ txnRecs = [t \in TxnIds |-> NoTxn]
    /\ docQueue = [d \in Docs |-> <<>>]
    /\ sw = [s \in Sweeps |-> IdleSweep]
    /\ deletions = {}
    /\ timer = NoTimer
    /\ clock = 0
    /\ fired = NoAsks
    /\ tc = NoFilter

\* Two processes about to run maybePrune on a database with no snapshot yet.
InitMaybePair ==
    /\ remover = newBatchRemover
    /\ lastCall = NoCall
    /\ dbDeleted = 0
    /\ nCalls = 0
    /\ oldCount = -1
    /\ newCount = 0
    /\ pruneOptions = NoOptions
    /\ decision = NoDecision
    /\ dpc = "start"
    /\ args = NoArgs
    /\ mpc = "validate"
    /\ result = NoResult
    /\ reporter = NoReporter
    /\ stopClosed = FALSE
    /\ wg = 0
    /\ mu = "free"
    /\ pstats = ZeroPrunerStats
    /\ anyErr = nilErr
    /\ spc = [s \in Sweeps |-> "idle"]
    /\ pruner = [s \in Sweeps |-> NoPruner]
    /\ loaded = [s \in Sweeps |-> ZeroPrunerStats]
    /\ launches = [s \in Sweeps |-> 0]
    /\ recorded = <<>>
    /\ txnsColl = 1 .. MaxTxns
    /\ dbOps = 0
    /\ mp = [p \in Procs |-> IdleRun]
    /\ statsDocs = {}
    /\ lastPtr = NoPointer
    /\ txnsDb = 1
    /\ stashDb = 1
    /\ nextId = 1
    /\ external = FALSE
    /\ txnRecs = [t \in TxnIds |-> NoTxn]
    /\ docQueue = [d \in Docs |-> <<>>]
    /\ sw = [s \in Sweeps |-> IdleSweep]
    /\ deletions = {}
    /\ timer = NoTimer
    /\ clock = 0
    /\ fired = NoAsks
    /\ tc = NoFilter

\* The sweeps of one CleanAndPrune are about to start; no transaction exists yet.
InitEngine ==
    /\ remover = newBatchRemover
    /\ lastCall = NoCall
    /\ dbDeleted = 0
    /\ nCalls = 0
    /\ oldCount = -1
    /\ newCount = 0
    /\ pruneOptions = NoOptions
    /\ decision = NoDecision
    /\ dpc = "start"
    /\ args \in EngineArgInputs
    /\ mpc = "validate"
    /\ result = NoResult
    /\ reporter = NoReporter
    /\ stopClosed = FALSE
    /\ wg = 0
    /\ mu = "free"
    /\ pstats = ZeroPrunerStats
    /\ anyErr = nilErr
    /\ spc = [s \in Sweeps |-> "idle"]
    /\ pruner = [s \in Sweeps |-> NoPruner]
    /\ loaded = [s \in Sweeps |-> ZeroPrunerStats]
    /\ launches = [s \in Sweeps |-> 0]
    /\ recorded = <<>>
    /\ txnsColl = 1 .. MaxTxns
    /\ dbOps = 0
    /\ mp = [p \in Procs |-> IdleRun]
    /\ statsDocs = {}
    /\ lastPtr = NoPointer
    /\ txnsDb = 1
    /\ stashDb = 1
    /\ nextId = 1
    /\ external = FALSE
    /\ txnRecs = [t \in TxnIds |-> NoTxn]
    /\ docQueue = [d \in Docs |-> <<>>]
    /\ sw = [s \in Sweeps |-> IdleSweep]
    /\ deletions = {}
    /\ timer = NoTimer
    /\ clock = 0
    /\ fired = NoAsks
    /\ tc = NoFilter

\* No timer made yet.
InitTimer ==
    /\ remover = newBatchRemover
    /\ lastCall = NoCall
    /\ dbDeleted = 0
    /\ nCalls = 0
    /\ oldCount = -1
    /\ newCount = 0
    /\ pruneOptions = NoOptions
    /\ decision = NoDecision
    /\ dpc = "start"
    /\ args = NoArgs
    /\ mpc = "validate"
    /\ result = NoResult
    /\ reporter = NoReporter
    /\ stopClosed = FALSE
    /\ wg = 0
    /\ mu = "free"
    /\ pstats = ZeroPrunerStats
    /\ anyErr = nilErr
    /\ spc = [s \in Sweeps |-> "idle"]
    /\ pruner = [s \in Sweeps |-> NoPruner]
    /\ loaded = [s \in Sweeps |-> ZeroPrunerStats]
    /\ launches = [s \in Sweeps |-> 0]
    /\ recorded = <<>>
    /\ txnsColl = 1 .. MaxTxns
    /\ dbOps = 0
    /\ mp = [p \in Procs |-> IdleRun]
    /\ statsDocs = {}
    /\ lastPtr = NoPointer
    /\ txnsDb = 1
    /\ stashDb = 1
    /\ nextId = 1
    /\ external = FALSE
    /\ txnRecs = [t \in TxnIds |-> NoTxn]
    /\ docQueue = [d \in Docs |-> <<>>]
    /\ sw = [s \in Sweeps |-> IdleSweep]
    /\ deletions = {}
    /\ timer = NoTimer
    /\ clock = 0
    /\ fired = NoAsks
    /\ tc = NoFilter

\* txnCollections is called on an enumerated list and base name.
InitCollections ==
    /\ remover = newBatchRemover
    /\ lastCall = NoCall
    /\ dbDeleted = 0
    /\ nCalls = 0
    /\ oldCount = -1
    /\ newCount = 0
    /\ pruneOptions = NoOptions
    /\ decision = NoDecision
    /\ dpc = "start"
    /\ args = NoArgs
    /\ mpc = "validate"
    /\ result = NoResult
    /\ reporter = NoReporter
    /\ stopClosed = FALSE
    /\ wg = 0
    /\ mu = "free"
    /\ pstats = ZeroPrunerStats
    /\ anyErr = nilErr
    /\ spc = [s \in Sweeps |-> "idle"]
    /\ pruner = [s \in Sweeps |-> NoPruner]
    /\ loaded = [s \in Sweeps |-> ZeroPrunerStats]
    /\ launches = [s \in Sweeps |-> 0]
    /\ recorded = <<>>
    /\ txnsColl = 1 .. MaxTxns
    /\ dbOps = 0
    /\ mp = [p \in Procs |-> IdleRun]
    /\ statsDocs = {}
    /\ lastPtr = NoPointer
    /\ txnsDb = 1
    /\ stashDb = 1
    /\ nextId = 1
    /\ external = FALSE
    /\ txnRecs = [t \in TxnIds |-> NoTxn]
    /\ docQueue = [d \in Docs |-> <<>>]
    /\ sw = [s \in Sweeps |-> IdleSweep]
    /\ deletions = {}
    /\ timer = NoTimer
    /\ clock = 0
    /\ fired = NoAsks
    /\ tc \in [inNames : NameLists, txnsName : TxnsNames, i : {1},
             outNames : {<<>>}, returned : {FALSE}]

Spec == Init /\ [][Next]_vars

SpecLive == Init /\ [][Next]_vars /\ Fairness

SpecRemover == InitRemoverSpec /\ [][NextRemover]_vars

SpecDecide == InitDecide /\ [][NextDecide]_vars

SpecMaybe == InitMaybe /\ [][NextMaybe]_vars

SpecMaybePair == InitMaybePair /\ [][NextMaybePair]_vars

SpecEngine == InitEngine /\ [][NextEngine]_vars

SpecTimer == InitTimer /\ [][NextTimer]_vars

SpecCollections == InitCollections /\ [][NextCollections]_vars
====
